---- MODULE Spec2Model ----
(***************************************************************************)
(* State-machine model of the credential service of the Web3 digital       *)
(* identity application (src/src/services/credentialService.ts), of the   *)
(* RateLimiter, SecureStorage and SecurityMonitor of                       *)
(* src/src/hooks/useWeb3Identity.ts, of SecureWeb3Service                  *)
(* (src/src/services/secureWeb3Service.ts), of the retry loop of the API   *)
(* client (src/unnamed/part_005) and of the useWeb3Identity hook           *)
(* (src/src/hooks/useCredentials.ts).                                      *)
(*                                                                         *)
(* Representation of JavaScript values                                     *)
(*  - A string is the non-empty sequence of its ':'-separated segments     *)
(*    ("did:ethr:0xaaa1" is <<"did","ethr","0xaaa1">>, "Jane" is           *)
(*    <<"Jane">>), so that String.split(':') is indexing.  undefined is    *)
(*    the empty sequence.                                                  *)
(*  - A value (object tree or leaf) is a function from paths (sequences of *)
(*    keys) to leaves.  A leaf value is the function with the single       *)
(*    path <<>>; an object is a function whose paths are all non-empty.    *)
(*  - A dot-path string "name.firstName" is the sequence of its            *)
(*    '.'-separated keys, so that field.split('.') is the identity on the  *)
(*    representation.                                                      *)
(*  - A Date is its millisecond count; the ISO string of Date d is <<d>>   *)
(*    and an absent (undefined) date string is <<>>.  The Invalid Date is  *)
(*    InvalidDate.                                                         *)
(*  - JSON text is the set of its <<path, leaf>> members: JSON.stringify   *)
(*    drops every member whose value is undefined, JSON.parse rebuilds the *)
(*    object from the members.                                             *)
(*  - "urn:uuid:<u>" is the number u drawn by crypto.randomUUID().         *)
(*  - Cryptography is symbolic: a signature names its signer and the       *)
(*    payload signed; a ciphertext names its key, IV and plaintext.        *)
(***************************************************************************)
EXTENDS Integers, Sequences, FiniteSets, TLC

\* ------------------------------------------------------------------ bounds

\* The clock runs over 0..MaxTime.
MaxTime == 1
\* Number of credentials issueCredential draws a uuid for in a run.
MaxCredentials == 1
\* Number of crypto.randomUUID() draws in a run, disclosures included.
MaxUuid == 2
\* Number of AES keys window.crypto.subtle.generateKey hands out in a run.
MaxKeys == 2
\* Longest request queue explored.
MaxQueue == 1

\* The rate limiter allows at most MaxCalls calls in a run.
MaxCalls == 4

\* The listing run issues at most MaxListed credentials.
MaxListed == 2

\* The concurrent run makes at most MaxConcurrent issueCredential calls.
MaxConcurrent == 2

\* The request-queue run queues at most MaxRequests requests.
MaxRequests == 2

\* ------------------------------------------------------- values and JSON

Undefined == <<>>

Str(s) == <<s>>

\* The leaf value v as a value (a tree with the single path <<>>).
Leaf(v) == [p \in {<<>>} |-> v]

UndefinedVal == Leaf(Undefined)

\* typeof value === 'object' (objects are truthy, so `value &&` adds nothing)
IsObject(value) == <<>> \notin DOMAIN value

\* key in value, for an object value
HasKey(value, key) == \E p \in DOMAIN value : Len(p) >= 1 /\ p[1] = key

\* value[key], for an object value that has the key
GetKey(value, key) ==
  [s \in {Tail(p) : p \in {q \in DOMAIN value : Len(q) >= 1 /\ q[1] = key}}
     |-> value[<<key>> \o s]]

IsPrefix(q, p) == Len(q) <= Len(p) /\ SubSeq(p, 1, Len(q)) = q

\* obj with obj.<keys> = value (whatever was at or below that path replaced)
PutAt(obj, keys, value) ==
  LET kept == {p \in DOMAIN obj : ~IsPrefix(keys, p)}
      new  == {keys \o s : s \in DOMAIN value}
  IN  [p \in kept \cup new |->
         IF p \in new THEN value[SubSeq(p, Len(keys) + 1, Len(p))] ELSE obj[p]]

\* JSON.stringify of a value: members whose value is undefined are dropped
JSONStringify(value) ==
  {<<p, value[p]>> : p \in {q \in DOMAIN value : value[q] # Undefined}}

\* JSON.parse of a JSON text
JSONParse(text) ==
  [p \in {m[1] : m \in text} |-> (CHOOSE m \in text : m[1] = p)[2]]

\* --------------------------------------------------------------- dates

InvalidDate == 0 - 1

\* Date.prototype.toISOString()
ToISOString(d) == <<d>>

\* new Date(isoString)
ParseDate(s) == s[1]

\* ------------------------------------------------------ wallets and DIDs

PrivateKeys == {"k1", "k2", "bad"}

\* new ethers.Wallet(privateKey) throws on a malformed key
ValidPrivateKey(k) == k \in {"k1", "k2"}

\* ethers.Wallet.address: the EIP-55 checksummed (mixed-case) address
AddressOf(k) == IF k = "k1" THEN "0xAAA1" ELSE "0xBbB2"

\* String.prototype.toLowerCase on the address strings of the model
ToLowerCase(s) ==
  CASE s = "0xAAA1" -> "0xaaa1"
    [] s = "0xBbB2" -> "0xbbb2"
    [] s = "0xDEAD" -> "0xdead"
    [] OTHER -> s

NoWallet == "null"

\* (mutant) the address as the wallet gives it, checksum case kept
DidOfAddressAsGiven(address) == <<"did", "ethr", address>>

\* `did:ethr:${this.wallet.address.toLowerCase()}`
DidOf(address) == <<"did", "ethr", ToLowerCase(address)>>

\* ------------------------------------------------------ symbolic crypto

\* ethers.keccak256(ethers.toUtf8Bytes(message)): collision free
Keccak256(message) == [keccak |-> message]

\* wallet.signMessage(payload) by the wallet with the given address
SignMessage(address, payload) == [signer |-> address, payload |-> payload]

\* proofValue: '' before signing
EmptySignature == [empty |-> TRUE]

\* ethers.verifyMessage throws on a string that is no signature
IsSignature(sig) == "signer" \in DOMAIN sig

\* ethers.verifyMessage(payload, sig): the signer when sig signs payload;
\* over any other payload ECDSA recovery yields an unrelated address
VerifyMessage(payload, sig) ==
  IF sig.payload = payload THEN sig.signer ELSE "0xDEAD"

NoKey == 0

\* window.crypto.subtle.encrypt({name: 'AES-GCM', iv}, key, data)
Encrypt(key, iv, data) == [key |-> key, iv |-> iv, data |-> data]

\* window.crypto.subtle.decrypt rejects unless key and iv are those of the
\* encryption (AES-GCM authentication)
CanDecrypt(key, iv, ct) == ct.key = key /\ ct.iv = iv

Decrypt(key, iv, ct) == ct.data

\* Buffer.from(bytes).toString('base64') and Buffer.from(text, 'base64')
ToBase64(bytes) == [b64 |-> bytes]

FromBase64(text) == text.b64

\* ------------------------------------------------- credential functions

W3CContext ==
  <<"https://www.w3.org/2018/credentials/v1",
    "https://www.w3.org/2018/credentials/examples/v1">>

\* The credential object issueCredential builds before signing
\* (proofValue still ''), for wallet `address`, uuid `uuid`, time `t`.
\* The optional Date expirationDate is <<d>>, or <<>> when not given.
BuildCredential(address, uuid, t, subject, expirationDate) ==
  LET did == DidOf(address)
  IN  [context           |-> W3CContext,
       id                |-> uuid,
       type              |-> <<"VerifiableCredential", subject[<<"type">>][1]>>,
       issuer            |-> [id |-> did, name |-> "Self-Issued"],
       issuanceDate      |-> ToISOString(t),
       expirationDate    |-> IF expirationDate # Undefined
                               THEN ToISOString(expirationDate[1])
                               ELSE Undefined,
       credentialSubject |-> PutAt(subject, <<"id">>, Leaf(did)),
       credentialStatus  |-> [id     |-> uuid,
                              type   |-> "CredentialStatusList2021",
                              status |-> "VERIFIED"],
       proof             |-> [type               |-> "EthereumECDSASignature2019",
                              created            |-> ToISOString(t),
                              verificationMethod |-> <<did[1], did[2], did[3] \o "#keys-1">>,
                              proofPurpose       |-> "assertionMethod",
                              proofValue         |-> EmptySignature]]

\* (mutant) the signed text leaves the subject out
CredentialMessageWithoutSubject(credential) ==
  [context           |-> credential.context,
   id                |-> credential.id,
   type              |-> credential.type,
   issuer            |-> credential.issuer,
   issuanceDate      |-> credential.issuanceDate,
   expirationDate    |-> credential.expirationDate,
   credentialSubject |-> {},
   credentialStatus  |-> credential.credentialStatus]

\* The JSON text that is signed: every field but proof, in a fixed order.
\* (An undefined expirationDate is dropped by JSON.stringify; dropped and
\* undefined read the same, and the field keeps Undefined here.)
CredentialMessage(credential) ==
  [context           |-> credential.context,
   id                |-> credential.id,
   type              |-> credential.type,
   issuer            |-> credential.issuer,
   issuanceDate      |-> credential.issuanceDate,
   expirationDate    |-> credential.expirationDate,
   credentialSubject |-> JSONStringify(credential.credentialSubject),
   credentialStatus  |-> credential.credentialStatus]

\* JSON.stringify(credential) and JSON.parse of it
\* (mutant) the proof value is not serialized
StringifyCredentialWithoutProof(credential) ==
  [credential EXCEPT !.credentialSubject = JSONStringify(credential.credentialSubject),
                     !.proof.proofValue = EmptySignature]

StringifyCredential(credential) ==
  [credential EXCEPT !.credentialSubject = JSONStringify(credential.credentialSubject)]

ParseCredential(text) ==
  [text EXCEPT !.credentialSubject = JSONParse(text.credentialSubject)]

WithProofValue(credential, signature) ==
  [credential EXCEPT !.proof.proofValue = signature]

\* `${ivBase64}.${encryptedBase64}`: a two-part string, IV first
EncryptedData(iv, ciphertext) == <<ToBase64(iv), ToBase64(ciphertext)>>

\* (mutant) the record with the holder's first name among the metadata
EncryptedCredentialWithHolderName(credential, iv, ciphertext) ==
  [id               |-> credential.id,
   type             |-> credential.type[2],
   encryptedData    |-> EncryptedData(iv, ciphertext),
   encryptionMethod |-> "AES-GCM",
   publicMetadata   |-> [issuer         |-> credential.issuer.id,
                         issuanceDate   |-> credential.issuanceDate,
                         expirationDate |-> credential.expirationDate,
                         credentialType |-> credential.type[2],
                         status         |-> credential.credentialSubject[<<"name", "firstName">>]]]

\* The record storeCredential puts in the map
EncryptedCredentialOf(credential, iv, ciphertext) ==
  LET credentialType == IF Len(credential.type) > 1
                          THEN credential.type[2] ELSE "IdentityCredential"
  IN  [id               |-> credential.id,
       type             |-> credentialType,
       encryptedData    |-> EncryptedData(iv, ciphertext),
       encryptionMethod |-> "AES-GCM",
       publicMetadata   |-> [issuer         |-> credential.issuer.id,
                             issuanceDate   |-> credential.issuanceDate,
                             expirationDate |-> credential.expirationDate,
                             credentialType |-> credentialType,
                             status         |-> credential.credentialStatus.status]]

NullCredential == [null |-> TRUE]

\* (mutant) decryption under any key yields the plaintext
LoadCredentialUnderAnyKey(store, key, id) ==
  IF id \notin DOMAIN store THEN NullCredential
  ELSE ParseCredential(FromBase64(store[id].encryptedData[2]).data)

\* getCredential after its key check: the record of `id` in `store`
\* decrypted with `key`; null when absent or when decryption fails
LoadCredential(store, key, id) ==
  IF id \notin DOMAIN store THEN NullCredential
  ELSE LET parts == store[id].encryptedData
           iv    == FromBase64(parts[1])
           ct    == FromBase64(parts[2])
       IN  IF CanDecrypt(key, iv, ct)
             THEN ParseCredential(Decrypt(key, iv, ct))
             ELSE NullCredential

\* (mutant) the comparison the wrong way round
IsExpiredReversed(credential, t) ==
  /\ credential.expirationDate # Undefined
  /\ ParseDate(credential.expirationDate) > t

\* expirationDate set and before `t` (verifyCredential step 1)
IsExpired(credential, t) ==
  /\ credential.expirationDate # Undefined
  /\ ParseDate(credential.expirationDate) < t

\* The address part of the issuer DID: split(':')[2] of a did:ethr: string,
\* the whole string otherwise
IssuerAddress(issuerDid) ==
  IF Len(issuerDid) >= 3 /\ issuerDid[1] = "did" /\ issuerDid[2] = "ethr"
    THEN issuerDid[3]
    ELSE IF Len(issuerDid) = 1 THEN issuerDid[1] ELSE "not-an-address"

\* (mutant) the addresses compared as they are
SameAddressCaseSensitive(a, b) == a = b

\* recoveredAddress.toLowerCase() === issuerAddress.toLowerCase()
SameAddress(a, b) == ToLowerCase(a) = ToLowerCase(b)

\* verifyCredential at time t: its result, and whether it reached
\* ethers.verifyMessage (signature recovery)
VerifyCredential(credential, t) ==
  IF IsExpired(credential, t)
    THEN [result |-> FALSE, recovery |-> FALSE]
    ELSE LET messageHash == Keccak256(CredentialMessage(credential))
             sig         == credential.proof.proofValue
         IN  IF ~IsSignature(sig)
               THEN [result |-> FALSE, recovery |-> TRUE]
               ELSE [result   |-> SameAddress(VerifyMessage(messageHash, sig),
                                              IssuerAddress(credential.issuer.id)),
                     recovery |-> TRUE]

\* ------------------------------------------------- selective disclosure

\* (mutant) a missing key leaves the value reached so far
RECURSIVE WalkKeysKeepingParent(_, _)
WalkKeysKeepingParent(value, keys) ==
  IF keys = <<>> THEN value
  ELSE IF IsObject(value) /\ HasKey(value, keys[1])
         THEN WalkKeysKeepingParent(GetKey(value, keys[1]), Tail(keys))
         ELSE value

\* The walk of one dot-path through a value: each key must be a key of an
\* object; anything else ends the walk with undefined
RECURSIVE WalkKeys(_, _)
WalkKeys(value, keys) ==
  IF keys = <<>> THEN value
  ELSE IF IsObject(value) /\ HasKey(value, keys[1])
         THEN WalkKeys(GetKey(value, keys[1]), Tail(keys))
         ELSE UndefinedVal

\* Setting the nested path throws a TypeError when a key on the way down
\* holds a string in the data built so far
SetNestedThrows(data, keys) ==
  \E i \in 1..(Len(keys) - 1) : SubSeq(keys, 1, i) \in DOMAIN data

\* The loop over the requested fields, from the data built so far
RECURSIVE ExtractFields(_, _, _)
ExtractFields(subject, fields, acc) ==
  IF fields = <<>> \/ acc.threw THEN acc
  ELSE LET keys  == Head(fields)
           value == WalkKeys(subject, keys)
       IN  IF value = UndefinedVal
             THEN ExtractFields(subject, Tail(fields), acc)
             ELSE IF SetNestedThrows(acc.data, keys)
                    THEN [acc EXCEPT !.threw = TRUE]
                    ELSE ExtractFields(subject, Tail(fields),
                           [acc EXCEPT !.data = PutAt(acc.data, keys, value)])

EmptyObject == [p \in {} |-> Undefined]

\* (mutant) the whole subject is disclosed
DisclosedWholeSubject(subject, fields) == [data |-> subject, threw |-> FALSE]

DisclosedData(subject, fields) ==
  ExtractFields(subject, fields, [data |-> EmptyObject, threw |-> FALSE])

\* The fields the disclosure object lists
DisclosedFields(subject, fields) == fields

\* The disclosure object before signing (proof still '')
BuildDisclosure(uuid, credentialId, recipientDid, subject, fields, purpose, expiry) ==
  [id             |-> uuid,
   credentialId   |-> credentialId,
   recipientDid   |-> recipientDid,
   disclosedFields |-> DisclosedFields(subject, fields),
   purpose        |-> purpose,
   expiresAt      |-> ToISOString(expiry),
   proof          |-> EmptySignature]

\* The JSON text signed for a disclosure
DisclosureMessage(disclosure, data) ==
  [id           |-> disclosure.id,
   credentialId |-> disclosure.credentialId,
   recipientDid |-> disclosure.recipientDid,
   fields       |-> disclosure.disclosedFields,
   purpose      |-> disclosure.purpose,
   expiresAt    |-> disclosure.expiresAt,
   data         |-> JSONStringify(data)]

\* ------------------------------------------------------------- inputs

\* A KYC subject as a caller passes it: it carries the caller's own id
\* (which issueCredential overwrites), a nested name and an optional field
\* that is present but undefined.
SubjectJane ==
  [p \in {<<"id">>, <<"type">>, <<"name", "firstName">>, <<"name", "lastName">>,
          <<"name", "middleName">>, <<"nationality">>} |->
     CASE p = <<"id">>                 -> <<"did", "web", "caller">>
       [] p = <<"type">>               -> Str("KYCCredential")
       [] p = <<"name", "firstName">>  -> Str("Jane")
       [] p = <<"name", "lastName">>   -> Str("Doe")
       [] p = <<"name", "middleName">> -> Undefined
       [] p = <<"nationality">>        -> Str("USA")]

Subjects == {SubjectJane}

\* A second KYC subject: the same type, other personal data
SubjectJohn ==
  [p \in {<<"id">>, <<"type">>, <<"name", "firstName">>, <<"name", "lastName">>,
          <<"name", "middleName">>, <<"nationality">>, <<"dateOfBirth">>,
          <<"documentNumber">>} |->
     CASE p = <<"id">>                 -> <<"did", "web", "caller">>
       [] p = <<"type">>               -> Str("KYCCredential")
       [] p = <<"name", "firstName">>  -> Str("John")
       [] p = <<"name", "lastName">>   -> Str("Roe")
       [] p = <<"name", "middleName">> -> Str("Quincy")
       [] p = <<"nationality">>        -> Str("GBR")
       [] p = <<"dateOfBirth">>        -> Str("1990-01-01")
       [] p = <<"documentNumber">>     -> Str("P1234567")]

\* Subjects that differ in personal data only
TwinSubjects == {SubjectJane, SubjectJohn}

\* The optional Date argument of issueCredential
ExpirationDates == {Undefined, <<InvalidDate>>, <<0>>}

\* The field lists a caller asks to disclose
FieldLists ==
  { <<<<"name", "firstName">>>>,
    <<<<"name">>, <<"name", "firstName">>>>,
    <<<<"name", "middleName">>, <<"nationality">>>>,
    <<<<"name", "firstName", "length">>, <<"address", "city">>>>,
    <<>> }

RecipientDid == <<"did", "web", "verifier">>

Purpose == Str("age check")

\* The one request the credential run queues
CoreRequest ==
  [id          |-> "r1",
   expiresAt   |-> ToISOString(MaxTime),
   callbackUrl |-> <<"https", "//verifier.example/cb">>,
   status      |-> "pending"]

RequestIds == {"r1", "r2"}

\* The requests the request-queue run receives
RequestInputs ==
  {[id          |-> id,
    expiresAt   |-> ToISOString(expiry),
    callbackUrl |-> <<"https", "//verifier.example/cb">>,
    status      |-> "pending"] : id \in RequestIds, expiry \in {0, MaxTime}}

\* -------------------------------------------------------------- state

VARIABLES
  wallet,           \* this.wallet: its address, or NoWallet
  encryptionKey,    \* this.encryptionKey: a key number, or NoKey
  credentials,      \* this.credentials: id -> EncryptedCredential
  pendingRequests,  \* this.pendingRequests
  now,              \* the clock read by new Date()
  uuids,            \* how many uuids crypto.randomUUID() has handed out
  keys,             \* how many keys generateKey has handed out
  initCall,         \* the initialize call in flight: "idle" or "generateKey"
  issueCalls,       \* the issueCredential calls in flight, by credential id
  discloseCall,     \* the createSelectiveDisclosure call in flight
  issued,           \* id -> the credential issueCredential returned
  ivs,              \* how many IVs getRandomValues has handed out
  ret,              \* what the call completed by the last step handed its caller
  requests,         \* RateLimiter.requests: key -> timestamps
  uncleaned,        \* requests of the same limiter had cleanup never run
  history,          \* key -> the configurations asked and the times allowed
  connected,        \* secureWeb3Service.wallet is set (a wallet is connected)
  earlier,          \* what the service held when a wallet was disconnected
  storageKey,       \* SecureStorage.encryptionKey: a key number, or NoKey
  storage,          \* SecureStorage.storage (localStorage): key -> blob
  written,          \* key -> the value last handed to an initialized setItem
  events,           \* SecurityMonitor.events
  logged,           \* every event logSecurityEvent was handed, in order
  fetchCall,        \* the fetchWithRetry call in flight
  lastConnectionTime,  \* SecureWeb3Service.lastConnectionTime
  lastIdentityFetch,   \* SecureWeb3Service.lastIdentityFetch: action -> time
  accepts,          \* action -> the times checkRateLimit accepted it, in order
  fetches,          \* the getIdentity calls waiting for their timer
  hookState,        \* the state of the useWeb3Identity hook
  hookCall          \* the hook's connectWallet or syncIdentity call in flight

vars == <<wallet, encryptionKey, credentials, pendingRequests, now, uuids, keys,
          initCall, issueCalls, discloseCall, issued, ivs, ret,
          requests, uncleaned, history, connected, earlier,
          storageKey, storage, written, events, logged, fetchCall,
          lastConnectionTime, lastIdentityFetch, accepts, fetches,
          hookState, hookCall>>

\* The rate limiter, with what is recorded about its run
limiter == <<requests, uncleaned, history>>

\* The wallet connection, with what is recorded about earlier sessions
session == <<connected, earlier>>

\* The secure storage, with what is recorded about its setItem calls
secureStorage == <<storageKey, storage, written>>

\* The security monitor, with what is recorded about its calls
monitor == <<events, logged>>

\* The API client's call in flight
apiClient == <<fetchCall>>

\* The cooldowns of the web3 service, with what is recorded about them, and
\* its getIdentity calls in flight
cooldowns == <<lastConnectionTime, lastIdentityFetch, accepts, fetches>>

\* The useWeb3Identity hook
hook == <<hookState, hookCall>>

\* The utilities of utils/security and their users outside the credential
\* service
utilities == <<secureStorage, monitor, apiClient, cooldowns, hook>>

\* The credential service, with its calls in flight and its counters
credentialService == <<wallet, encryptionKey, credentials, pendingRequests, uuids,
                       keys, initCall, issueCalls, discloseCall, issued, ivs>>

\* The fields of the service object
service == <<wallet, encryptionKey, credentials, pendingRequests>>

EmptyMap == [x \in {} |-> 0]

IdleCall == [pc |-> "idle"]

Range(f) == {f[x] : x \in DOMAIN f}

Without(f, x) == [y \in DOMAIN f \ {x} |-> f[y]]

\* No call completed in the step
NoResult == [op |-> "none", outcome |-> "none"]

Throw(op, error) == [op |-> op, outcome |-> "throw", error |-> error]

\* useState's initial state (the fields the calls read or write)
NoIdentity == [address |-> NoWallet, did |-> <<>>]

InitialHookState ==
  [wallet |-> NoWallet, identity |-> NoIdentity, isConnecting |-> FALSE,
   isLoading |-> FALSE, error |-> "null"]

\* Nothing was held at a disconnect
NothingHeld == [credentials |-> {}, requests |-> {}]

Init ==
  /\ wallet = NoWallet
  /\ encryptionKey = NoKey
  /\ credentials = EmptyMap
  /\ pendingRequests = <<>>
  /\ now = 0
  /\ uuids = 0
  /\ keys = 0
  /\ initCall = "idle"
  /\ issueCalls = EmptyMap
  /\ discloseCall = IdleCall
  /\ issued = EmptyMap
  /\ ivs = 0
  /\ ret = NoResult
  /\ requests = EmptyMap
  /\ uncleaned = EmptyMap
  /\ history = EmptyMap
  /\ connected = FALSE
  /\ earlier = NothingHeld
  /\ storageKey = NoKey
  /\ storage = EmptyMap
  /\ written = EmptyMap
  /\ events = <<>>
  /\ logged = <<>>
  /\ fetchCall = IdleCall
  /\ lastConnectionTime = 0
  /\ lastIdentityFetch = EmptyMap
  /\ accepts = EmptyMap
  /\ fetches = {}
  /\ hookState = InitialHookState
  /\ hookCall = IdleCall

\* ------------------------------------------------------------ initialize

\* initialize up to its await: the wallet is assigned before the key is
\* generated; a malformed private key throws inside the try (return false)
InitializeStart(privateKey) ==
  /\ initCall = "idle"
  /\ IF ValidPrivateKey(privateKey)
       THEN /\ wallet' = AddressOf(privateKey)
            /\ initCall' = "generateKey"
            /\ ret' = NoResult
       ELSE /\ ret' = [op |-> "initialize", outcome |-> "return", success |-> FALSE]
            /\ UNCHANGED <<wallet, initCall>>
  /\ UNCHANGED <<utilities, limiter, session, encryptionKey, credentials, pendingRequests, now, uuids, keys,
                 issueCalls, discloseCall, issued, ivs>>

\* generateKey resolved: the key is assigned, initialize returns true
InitializeKeyGenerated ==
  /\ initCall = "generateKey"
  /\ keys' = keys + 1
  /\ encryptionKey' = keys + 1
  /\ initCall' = "idle"
  /\ ret' = [op |-> "initialize", outcome |-> "return", success |-> TRUE]
  /\ UNCHANGED <<utilities, limiter, session, wallet, credentials, pendingRequests, now, uuids, issueCalls,
                 discloseCall, issued, ivs>>

\* generateKey rejected: the catch returns false and assigns nothing
InitializeKeyFailed ==
  /\ initCall = "generateKey"
  /\ initCall' = "idle"
  /\ ret' = [op |-> "initialize", outcome |-> "return", success |-> FALSE]
  /\ UNCHANGED <<utilities, limiter, session, wallet, encryptionKey, credentials, pendingRequests, now, uuids,
                 keys, issueCalls, discloseCall, issued, ivs>>

\* --------------------------------------------------------------- getDID

\* (mutant) no wallet check
GetDIDResultUnguarded ==
  [op |-> "getDID", outcome |-> "return", did |-> DidOf(wallet)]

GetDIDResult ==
  IF wallet = NoWallet
    THEN Throw("getDID", "Wallet not initialized")
    ELSE [op |-> "getDID", outcome |-> "return", did |-> DidOf(wallet)]

GetDID ==
  /\ ret' = GetDIDResult
  /\ UNCHANGED <<utilities, limiter, session, wallet, encryptionKey, credentials, pendingRequests, now, uuids,
                 keys, initCall, issueCalls, discloseCall, issued, ivs>>

\* ------------------------------------------------------ issueCredential

\* issueCredential up to `await this.wallet.signMessage(...)`
IssueStart(subject, expirationDate) ==
  /\ IF wallet = NoWallet
       THEN /\ ret' = Throw("issueCredential", "Wallet not initialized")
            /\ UNCHANGED <<uuids, issueCalls>>
       ELSE /\ uuids' = uuids + 1
            /\ IF expirationDate = <<InvalidDate>>
                 THEN \* expirationDate.toISOString() throws
                      /\ ret' = Throw("issueCredential", "RangeError: Invalid time value")
                      /\ UNCHANGED issueCalls
                 ELSE LET credential == BuildCredential(wallet, uuids + 1, now,
                                                        subject, expirationDate)
                          messageHash == Keccak256(CredentialMessage(credential))
                      IN  /\ issueCalls' = issueCalls @@
                               ((uuids + 1) :>
                                  [pc         |-> "signMessage",
                                   credential |-> credential,
                                   signature  |-> SignMessage(wallet, messageHash)])
                          /\ ret' = NoResult
  /\ UNCHANGED <<utilities, limiter, session, wallet, encryptionKey, credentials, pendingRequests, now, keys,
                 initCall, discloseCall, issued, ivs>>

\* The signature arrived; storeCredential up to `await ...subtle.encrypt(...)`
IssueSigned(id) ==
  /\ id \in DOMAIN issueCalls
  /\ issueCalls[id].pc = "signMessage"
  /\ LET credential == WithProofValue(issueCalls[id].credential, issueCalls[id].signature)
     IN  IF encryptionKey = NoKey
           THEN /\ ret' = Throw("issueCredential", "Encryption key not initialized")
                /\ issueCalls' = Without(issueCalls, id)
                /\ UNCHANGED ivs
           ELSE /\ ivs' = ivs + 1
                /\ issueCalls' = [issueCalls EXCEPT ![id] =
                     [pc         |-> "encrypt",
                      credential |-> credential,
                      iv         |-> ivs + 1,
                      ciphertext |-> Encrypt(encryptionKey, ivs + 1,
                                             StringifyCredential(credential))]]
                /\ ret' = NoResult
  /\ UNCHANGED <<utilities, limiter, session, wallet, encryptionKey, credentials, pendingRequests, now, uuids,
                 keys, initCall, discloseCall, issued>>

\* (mutant) the map is replaced by one holding the new record only
IssueStoredAlone(id) ==
  /\ id \in DOMAIN issueCalls
  /\ issueCalls[id].pc = "encrypt"
  /\ LET call == issueCalls[id]
     IN  /\ credentials' = (id :> EncryptedCredentialOf(call.credential, call.iv,
                                                        call.ciphertext))
         /\ issued' = (id :> call.credential) @@ issued
         /\ ret' = [op |-> "issueCredential", outcome |-> "return",
                    credential |-> call.credential]
  /\ issueCalls' = Without(issueCalls, id)
  /\ UNCHANGED <<utilities, limiter, session, wallet, encryptionKey, pendingRequests, now, uuids,
                 keys, initCall, discloseCall, ivs>>

\* The ciphertext arrived: the record is put in the map and the credential
\* is returned
IssueStored(id) ==
  /\ id \in DOMAIN issueCalls
  /\ issueCalls[id].pc = "encrypt"
  /\ LET call == issueCalls[id]
     IN  /\ credentials' = (id :> EncryptedCredentialOf(call.credential, call.iv,
                                                        call.ciphertext)) @@ credentials
         /\ issued' = (id :> call.credential) @@ issued
         /\ ret' = [op |-> "issueCredential", outcome |-> "return",
                    credential |-> call.credential]
  /\ issueCalls' = Without(issueCalls, id)
  /\ UNCHANGED <<utilities, limiter, session, wallet, encryptionKey, pendingRequests, now, uuids, keys, initCall,
                 discloseCall, ivs>>

\* (mutant) the record is put in the map although encrypt rejected
IssueEncryptFailedKeepingRecord(id) ==
  /\ id \in DOMAIN issueCalls
  /\ issueCalls[id].pc = "encrypt"
  /\ ret' = Throw("issueCredential", "Failed to store credential securely")
  /\ credentials' = (id :> EncryptedCredentialOf(issueCalls[id].credential,
                                                 issueCalls[id].iv,
                                                 issueCalls[id].ciphertext)) @@ credentials
  /\ issueCalls' = Without(issueCalls, id)
  /\ UNCHANGED <<utilities, limiter, session, wallet, encryptionKey, pendingRequests, now, uuids,
                 keys, initCall, discloseCall, issued, ivs>>

\* encrypt rejected: storeCredential's catch rethrows a storage error
IssueEncryptFailed(id) ==
  /\ id \in DOMAIN issueCalls
  /\ issueCalls[id].pc = "encrypt"
  /\ ret' = Throw("issueCredential", "Failed to store credential securely")
  /\ issueCalls' = Without(issueCalls, id)
  /\ UNCHANGED <<utilities, limiter, session, wallet, encryptionKey, credentials, pendingRequests, now, uuids,
                 keys, initCall, discloseCall, issued, ivs>>

\* ------------------------------------- getCredential and the listing

\* getCredential reads the map and the key before its only await, so its
\* result is fixed when it is called
GetCredentialResult(id) ==
  IF encryptionKey = NoKey
    THEN Throw("getCredential", "Encryption key not initialized")
    ELSE [op |-> "getCredential", outcome |-> "return", id |-> id,
          credential |-> LoadCredential(credentials, encryptionKey, id)]

GetCredential(id) ==
  /\ ret' = GetCredentialResult(id)
  /\ UNCHANGED <<utilities, limiter, session, wallet, encryptionKey, credentials, pendingRequests, now, uuids,
                 keys, initCall, issueCalls, discloseCall, issued, ivs>>

MetadataListing ==
  {[id |-> id, metadata |-> credentials[id].publicMetadata] : id \in DOMAIN credentials}

GetAllCredentialMetadata ==
  /\ ret' = [op |-> "getAllCredentialMetadata", outcome |-> "return",
             listing |-> MetadataListing]
  /\ UNCHANGED <<utilities, limiter, session, wallet, encryptionKey, credentials, pendingRequests, now, uuids,
                 keys, initCall, issueCalls, discloseCall, issued, ivs>>

\* ----------------------------------------------------- verifyCredential

\* The values a tampering party writes into a subject field
TamperValues == {Str("Mallory"), Undefined}

\* credential with one credentialSubject field changed to a different value
Tampered(credential) ==
  {[credential EXCEPT !.credentialSubject = PutAt(@, p, Leaf(v))] :
     <<p, v>> \in {pv \in (DOMAIN credential.credentialSubject) \X TamperValues :
                     credential.credentialSubject[pv[1]] # pv[2]}}

\* The credentials a caller hands verifyCredential: those issued, as
\* returned and as read back, with their proof removed, and tampered with
VerifyInputs ==
  LET asIssued == Range(issued)
      readBack == {LoadCredential(credentials, encryptionKey, id) :
                     id \in DOMAIN credentials} \ {NullCredential}
  IN  asIssued \cup readBack
        \cup {WithProofValue(c, EmptySignature) : c \in asIssued}
        \cup UNION {Tampered(c) : c \in asIssued}

\* verifyCredential has no await: it runs to its result
VerifyCredentialCall(credential) ==
  /\ ret' = [op |-> "verifyCredential", outcome |-> "return",
             credential |-> credential,
             result   |-> VerifyCredential(credential, now).result,
             recovery |-> VerifyCredential(credential, now).recovery]
  /\ UNCHANGED <<utilities, limiter, session, wallet, encryptionKey, credentials, pendingRequests, now, uuids,
                 keys, initCall, issueCalls, discloseCall, issued, ivs>>

\* -------------------------------------------- createSelectiveDisclosure

NullDisclosure == [null |-> TRUE]

\* createSelectiveDisclosure up to the await inside getCredential: the map
\* and the key are read here (a missing key throws inside the try, which
\* ends in null like a missing record)
DiscloseStart(credentialId, fields, expiry) ==
  /\ discloseCall = IdleCall
  /\ IF wallet = NoWallet
       THEN /\ ret' = Throw("createSelectiveDisclosure", "Wallet not initialized")
            /\ UNCHANGED discloseCall
       ELSE /\ discloseCall' =
                 [pc           |-> "decrypt",
                  credentialId |-> credentialId,
                  fields       |-> fields,
                  expiry       |-> expiry,
                  loaded       |-> IF encryptionKey = NoKey
                                     THEN NullCredential
                                     ELSE LoadCredential(credentials, encryptionKey,
                                                         credentialId)]
            /\ ret' = NoResult
  /\ UNCHANGED <<utilities, limiter, session, wallet, encryptionKey, credentials, pendingRequests, now, uuids,
                 keys, initCall, issueCalls, issued, ivs>>

\* (mutant) the loaded credential is not verified
DisclosureProceedsUnverified(call, t) ==
  /\ call.loaded # NullCredential
  /\ ~DisclosedData(call.loaded.credentialSubject, call.fields).threw

\* Whether the call goes on to build and sign a disclosure, at time t
DisclosureProceeds(call, t) ==
  /\ call.loaded # NullCredential
  /\ VerifyCredential(call.loaded, t).result
  /\ ~DisclosedData(call.loaded.credentialSubject, call.fields).threw

\* The rest of createSelectiveDisclosure: verification at the current time,
\* extraction, and the signature by the wallet that is current now
DiscloseFinish ==
  /\ discloseCall # IdleCall
  /\ LET call == discloseCall
     IN  IF ~DisclosureProceeds(call, now)
           THEN /\ ret' = [op |-> "createSelectiveDisclosure", outcome |-> "return",
                           credentialId |-> call.credentialId,
                           requested    |-> call.fields,
                           loaded       |-> call.loaded,
                           disclosure   |-> NullDisclosure]
                /\ UNCHANGED uuids
           ELSE LET subject    == call.loaded.credentialSubject
                    data       == DisclosedData(subject, call.fields).data
                    disclosure == BuildDisclosure(uuids + 1, call.credentialId,
                                                  RecipientDid, subject, call.fields,
                                                  Purpose, call.expiry)
                    signature  == SignMessage(wallet, DisclosureMessage(disclosure, data))
                IN  /\ uuids' = uuids + 1
                    /\ ret' = [op |-> "createSelectiveDisclosure", outcome |-> "return",
                               credentialId |-> call.credentialId,
                               requested    |-> call.fields,
                               loaded       |-> call.loaded,
                                   disclosure   |-> [disclosure EXCEPT !.proof = signature]]
  /\ discloseCall' = IdleCall
  /\ UNCHANGED <<utilities, limiter, session, wallet, encryptionKey, credentials, pendingRequests, now, keys,
                 initCall, issueCalls, issued, ivs>>

\* --------------------------------------------------- credential requests

\* (mutant) no request counts as expired
RequestNeverExpired(request, t) == FALSE

\* new Date(request.expiresAt) < new Date()
RequestExpired(request, t) == ParseDate(request.expiresAt) < t

\* receiveCredentialRequest: an expired request is refused, any other is
\* appended.  The queue holds the request object it is handed; the model's
\* callers hand a fresh object on every call.
ReceiveCredentialRequest(request) ==
  /\ IF RequestExpired(request, now)
       THEN /\ ret' = [op |-> "receiveCredentialRequest", outcome |-> "throw",
                       error   |-> "Credential request has expired",
                       request |-> request]
            /\ UNCHANGED pendingRequests
       ELSE /\ pendingRequests' = Append(pendingRequests, request)
            /\ ret' = [op |-> "receiveCredentialRequest", outcome |-> "return",
                       request |-> request]
  /\ UNCHANGED <<utilities, limiter, session, wallet, encryptionKey, credentials, now, uuids, keys,
                 initCall, issueCalls, discloseCall, issued, ivs>>

\* (mutant) the filter looks at the status only
StillPendingByStatus(request, t) == request.status = "pending"

\* The filter of getPendingRequests
StillPending(request, t) ==
  /\ ParseDate(request.expiresAt) >= t
  /\ request.status = "pending"

\* getPendingRequests: a new array of the queued requests that pass the
\* filter
GetPendingRequests ==
  /\ ret' = [op |-> "getPendingRequests", outcome |-> "return",
             pending |-> SelectSeq(pendingRequests, LAMBDA r : StillPending(r, now))]
  /\ UNCHANGED <<utilities, limiter, session, wallet, encryptionKey, credentials, pendingRequests,
                 now, uuids, keys, initCall, issueCalls, discloseCall, issued, ivs>>

\* this.pendingRequests.findIndex(r => r.id === requestId), 0 for -1
FindIndex(queue, requestId) ==
  IF \E i \in 1..Len(queue) : queue[i].id = requestId
    THEN CHOOSE i \in 1..Len(queue) :
           /\ queue[i].id = requestId
           /\ \A j \in 1..(i - 1) : queue[j].id # requestId
    ELSE 0

\* respondToRequest: the status of the first request with the id is set,
\* whatever it was; logging the response cannot fail, so the call returns
\* true
RespondToRequest(requestId, approved) ==
  /\ LET requestIndex == FindIndex(pendingRequests, requestId)
     IN  IF requestIndex = 0
           THEN /\ ret' = Throw("respondToRequest", "Request not found")
                /\ UNCHANGED pendingRequests
           ELSE /\ pendingRequests' = [pendingRequests EXCEPT ![requestIndex].status =
                                         IF approved THEN "approved" ELSE "denied"]
                /\ ret' = [op |-> "respondToRequest", outcome |-> "return",
                           requestId |-> requestId,
                           approved  |-> approved,
                           success   |-> TRUE]
  /\ UNCHANGED <<utilities, limiter, session, wallet, encryptionKey, credentials, now, uuids, keys,
                 initCall, issueCalls, discloseCall, issued, ivs>>

\* ---------------------------------------------------------- RateLimiter

\* The instants (ms) at which the limiter run reads Date.now()
Instants == {0, 500, 1000, 1500, 3600000}

LimiterKeys == {"sign", "transaction"}

Limits == {1, 3}

WindowsMs == {1000, 7200000}

\* cleanup keeps the timestamps of the last hour
CleanupKeepMs == 3600000

\* this.requests.get(key) || []
TimestampsOf(map, key) == IF key \in DOMAIN map THEN map[key] ELSE <<>>

\* timestamps.filter(t => t > t0)
After(timestamps, t0) == SelectSeq(timestamps, LAMBDA t : t > t0)

\* recentRequests of isAllowed at time t
RecentRequests(map, key, window, t) == After(TimestampsOf(map, key), t - window)

\* The return value of isAllowed at time t
Allowed(map, key, limit, window, t) == Len(RecentRequests(map, key, window, t)) < limit

\* The map after isAllowed at time t: an allowed call stores the recent
\* timestamps with t appended, a denied call stores nothing
AfterIsAllowed(map, key, limit, window, t) ==
  IF Allowed(map, key, limit, window, t)
    THEN (key :> Append(RecentRequests(map, key, window, t), t)) @@ map
    ELSE map

\* The map after cleanup at time t
AfterCleanup(map, t) == [key \in DOMAIN map |-> After(map[key], t - CleanupKeepMs)]

NeverAsked == [configs |-> {}, allowedAt |-> <<>>]

HistoryOf(key) == IF key \in DOMAIN history THEN history[key] ELSE NeverAsked

\* How many calls the limiter has allowed so far
AllowedCalls ==
  Cardinality(UNION {{<<key, i>> : i \in 1..Len(history[key].allowedAt)} :
                       key \in DOMAIN history})

\* isAllowed(key, limit, window)
IsAllowed(key, limit, window) ==
  /\ requests' = AfterIsAllowed(requests, key, limit, window, now)
  /\ uncleaned' = AfterIsAllowed(uncleaned, key, limit, window, now)
  /\ history' = (key :>
       [configs   |-> HistoryOf(key).configs \cup {<<limit, window>>},
        allowedAt |-> IF Allowed(requests, key, limit, window, now)
                        THEN Append(HistoryOf(key).allowedAt, now)
                        ELSE HistoryOf(key).allowedAt]) @@ history
  /\ ret' = [op |-> "isAllowed", outcome |-> "return",
             key      |-> key,
             limit    |-> limit,
             window   |-> window,
             recorded |-> TimestampsOf(requests, key),
             allowed  |-> Allowed(requests, key, limit, window, now),
             allowedUncleaned |-> Allowed(uncleaned, key, limit, window, now)]
  /\ UNCHANGED <<utilities, credentialService, session, now>>

\* cleanup, run by the interval timer the constructor sets
Cleanup ==
  /\ requests' = AfterCleanup(requests, now)
  /\ ret' = NoResult
  /\ UNCHANGED <<utilities, credentialService, session, now, uncleaned, history>>

\* Time passes up to a later instant
Wait(t) ==
  /\ t > now
  /\ now' = t
  /\ ret' = NoResult
  /\ UNCHANGED <<utilities, credentialService, session, limiter>>

\* -------------------------------------------------------- SecureStorage

\* The keys and values the storage run uses
StorageKeys == {"session", "profile", "settings"}

StoredValues == {Leaf(Str("token")), SubjectJane}

\* The IVs crypto.randomBytes(12) can hand out
StorageIvs == {1, 2}

\* crypto.subtle as SecureStorage reads it: crypto is the object the module
\* declares, which has randomBytes and generateCSRFToken and nothing else
CryptoSubtle == Undefined

\* getItem's null
NullItem == UndefinedVal

\* SecureStorage.initialize
SecureStorageInitialize(encryptionKey_) ==
  /\ storageKey' = encryptionKey_
  /\ ret' = NoResult
  /\ UNCHANGED <<credentialService, limiter, session, monitor, apiClient, cooldowns, hook, now, storage, written>>

\* SecureStorage.setItem with its encrypt: reading crypto.subtle.encrypt
\* off an object without subtle is a TypeError, which rejects setItem
\* before this.storage.setItem is reached
SetItem(key, value) ==
  /\ IF storageKey = NoKey
       THEN /\ ret' = Throw("setItem", "SecureStorage not initialized")
            /\ UNCHANGED <<storage, written>>
       ELSE /\ written' = (key :> value) @@ written
            /\ IF CryptoSubtle = Undefined
                 THEN /\ ret' = Throw("setItem", "TypeError")
                      /\ UNCHANGED storage
                 ELSE /\ \E iv \in StorageIvs :
                           storage' = (key :> ToBase64(<<iv,
                                          Encrypt(storageKey, iv, JSONStringify(value))>>))
                                      @@ storage
                      /\ ret' = [op |-> "setItem", outcome |-> "return"]
  /\ UNCHANGED <<credentialService, limiter, session, monitor, apiClient, cooldowns, hook, now, storageKey>>

\* SecureStorage.getItem with its decrypt
GetItem(key) ==
  /\ ret' =
       IF storageKey = NoKey
         THEN [op |-> "getItem", outcome |-> "throw", key |-> key,
               error |-> "SecureStorage not initialized"]
       ELSE IF key \notin DOMAIN storage
         THEN [op |-> "getItem", outcome |-> "return", key |-> key,
               isNull |-> TRUE, value |-> NullItem]
       ELSE IF CryptoSubtle = Undefined
         THEN [op |-> "getItem", outcome |-> "throw", key |-> key,
               error |-> "TypeError"]
       ELSE LET bytes == FromBase64(storage[key])
            IN  IF CanDecrypt(storageKey, bytes[1], bytes[2])
                  THEN [op |-> "getItem", outcome |-> "return", key |-> key,
                        isNull |-> FALSE,
                        value  |-> JSONParse(Decrypt(storageKey, bytes[1], bytes[2]))]
                  ELSE [op |-> "getItem", outcome |-> "throw", key |-> key,
                        error |-> "OperationError"]
  /\ UNCHANGED <<credentialService, limiter, session, monitor, apiClient, cooldowns, hook, now, secureStorage>>

\* ------------------------------------------------------ SecurityMonitor

\* MAX_EVENTS
MAX_EVENTS == 1000

\* The error rate (in percent) above which detectAnomalies logs an event:
\* metrics.errorRate > 0.1
ErrorRateThresholdPercent == 10

\* The error rates (in percent) of the metrics handed to detectAnomalies
ErrorRates == {10, 11}

\* The events callers hand to logSecurityEvent
EventInputs ==
  {[type |-> "MESSAGE_SIGNED", severity |-> "MEDIUM", details |-> [errorRate |-> 0]],
   [type |-> "API_REQUEST_FAILED", severity |-> "HIGH", details |-> [errorRate |-> 0]]}

\* The event detectAnomalies logs
HighErrorRate(errorRate) ==
  [type |-> "HIGH_ERROR_RATE", severity |-> "HIGH", details |-> [errorRate |-> errorRate]]

\* this.events after a push that never evicts
PushedUnbounded(log, event) == Append(log, event)

\* this.events after push and, beyond MAX_EVENTS, shift
Pushed(log, event) ==
  IF Len(log) + 1 > MAX_EVENTS THEN Tail(Append(log, event)) ELSE Append(log, event)

\* logSecurityEvent
LogSecurityEvent(event) ==
  /\ events' = Pushed(events, event)
  /\ logged' = Append(logged, event)
  /\ ret' = NoResult
  /\ UNCHANGED <<credentialService, limiter, session, secureStorage, apiClient, cooldowns, hook, now>>

\* detectAnomalies, with the logSecurityEvent it calls
DetectAnomalies(errorRate) ==
  /\ IF errorRate > ErrorRateThresholdPercent
       THEN /\ events' = Pushed(events, HighErrorRate(errorRate))
            /\ logged' = Append(logged, HighErrorRate(errorRate))
       ELSE UNCHANGED <<events, logged>>
  /\ ret' = [op |-> "detectAnomalies", outcome |-> "return", errorRate |-> errorRate]
  /\ UNCHANGED <<credentialService, limiter, session, secureStorage, apiClient, cooldowns, hook, now>>

\* -------------------------------------------------------- SecureApiClient

\* retries: number = 3
Retries == 3

\* options.retryDelay || 1000
DefaultRetryDelay == 1000

\* options.retryDelay as callers give it; 0 stands for a delay left out
RetryDelayOptions == {0, 500}

RetryDelayOf(option) == IF option = 0 THEN DefaultRetryDelay ELSE option

\* What an attempt's fetch does: it resolves with an OK response, resolves
\* with an HTTP error status, or rejects (network failure, abort on timeout)
FetchOutcomes == {"ok", "httpError", "rejected"}

\* The instants (ms) at which the retry run reads the clock
FetchInstants == {500, 1000, 1500, 3000}

\* Whether securityMonitor has the method fetchWithRetry calls on it after
\* every response: SecurityMonitor declares logSecurityEvent and
\* detectAnomalies only
MonitorHasUpdateSecurityMetrics == FALSE

Pow2(n) == IF n = 0 THEN 1 ELSE IF n = 1 THEN 2 ELSE 4

\* The error the try block of attempt i throws for a fetch outcome, or
\* "none" when the block returns the response
AttemptError(outcome) ==
  IF outcome = "rejected" THEN "fetch rejected"
  ELSE IF ~MonitorHasUpdateSecurityMetrics THEN "TypeError"
  ELSE IF outcome = "httpError" THEN "HTTP error"
  ELSE "none"

\* fetchWithRetry up to its first fetch
FetchStart(retryDelay) ==
  /\ fetchCall = IdleCall
  /\ fetchCall' = [pc |-> "fetch", i |-> 0, retryDelay |-> retryDelay,
                   outcomes |-> <<>>, waits |-> <<>>, resumeAt |-> now,
                   lastError |-> "null"]
  /\ ret' = NoResult
  /\ UNCHANGED <<credentialService, limiter, session, secureStorage, monitor,
                 cooldowns, hook, now>>

\* Attempt i: the fetch settles, the try block returns the response or
\* throws; the catch block keeps the error and either breaks out of the
\* loop, after which lastError is thrown, or starts the backoff timer
FetchAttempt(outcome) ==
  /\ fetchCall.pc = "fetch"
  /\ LET outcomes == Append(fetchCall.outcomes, outcome)
         error    == AttemptError(outcome)
         delay    == RetryDelayOf(fetchCall.retryDelay) * Pow2(fetchCall.i)
     IN  IF error = "none"
           THEN /\ ret' = [op |-> "fetchWithRetry", outcome |-> "return",
                           outcomes |-> outcomes, waits |-> fetchCall.waits,
                           error |-> "none"]
                /\ fetchCall' = IdleCall
           ELSE IF fetchCall.i = Retries - 1
           THEN /\ ret' = [op |-> "fetchWithRetry", outcome |-> "throw",
                           outcomes |-> outcomes, waits |-> fetchCall.waits,
                           error |-> error]
                /\ fetchCall' = IdleCall
           ELSE /\ ret' = NoResult
                /\ fetchCall' = [fetchCall EXCEPT !.pc = "backoff",
                                                  !.outcomes = outcomes,
                                                  !.waits = Append(@, delay),
                                                  !.resumeAt = now + delay,
                                                  !.lastError = error]
  /\ UNCHANGED <<credentialService, limiter, session, secureStorage, monitor,
                 cooldowns, hook, now>>

\* The backoff timer fires: the loop goes on with i + 1
FetchResume ==
  /\ fetchCall.pc = "backoff"
  /\ now >= fetchCall.resumeAt
  /\ fetchCall' = [fetchCall EXCEPT !.pc = "fetch", !.i = @ + 1]
  /\ ret' = NoResult
  /\ UNCHANGED <<credentialService, limiter, session, secureStorage, monitor,
                 cooldowns, hook, now>>

\* ------------------------------------------------------ SecureWeb3Service

\* Date.now() when the page is loaded, in ms: the clock `now` counts from
\* there.  Date.now() is far beyond every cooldown, which is what makes the
\* first call pass the checks against the initial 0.
PageLoadedAt == 100000

DateNow == PageLoadedAt + now

\* connectionCooldown
connectionCooldown == 2000

\* fetchCooldown
fetchCooldown == 1000

\* The timer of getIdentity's simulated network request
IdentityRequestMs == 1000

\* RATE_LIMIT
RateLimitRequests == 10

RateLimitWindow == 60000

\* What the provider answers to eth_requestAccounts
ProviderOutcomes == {"accounts", "no accounts"}

\* The addresses identities are fetched for
IdentityAddresses == {"0xAAA1", "0xBbB2"}

ConnectAction == <<"connect">>

\* `identity_${address}`
IdentityAction(address) == <<"identity", address>>

CooldownError(action) ==
  IF action = ConnectAction
    THEN "Please wait a moment before trying to connect again"
    ELSE "Please wait a moment before fetching again"

\* The time checkRateLimit compares with, and the cooldown it applies
LastTime(action) ==
  IF action = ConnectAction THEN lastConnectionTime
  ELSE IF action \in DOMAIN lastIdentityFetch THEN lastIdentityFetch[action]
  ELSE 0

CooldownOf(action) == IF action = ConnectAction THEN connectionCooldown ELSE fetchCooldown

\* checkRateLimit(action) does not throw
RateLimitPasses(action) == ~(DateNow - LastTime(action) < CooldownOf(action))

\* The time checkRateLimit leaves behind were it to store the time of
\* every call
TimeKeptOfEveryCall(action, passes) == DateNow

\* The time checkRateLimit leaves behind: the time of a call that passes
TimeKept(action, passes) == IF passes THEN DateNow ELSE LastTime(action)

NeverChecked == [accepted |-> <<>>, rejected |-> <<>>]

ChecksOf(action) == IF action \in DOMAIN accepts THEN accepts[action] ELSE NeverChecked

\* How many checkRateLimit(action) calls were made
Checked(action) == Len(ChecksOf(action).accepted) + Len(ChecksOf(action).rejected)

\* checkRateLimit(action): the fields after the call, with the record of
\* what it decided
CheckRateLimit(action) ==
  LET passes == RateLimitPasses(action)
  IN  /\ IF action = ConnectAction
           THEN /\ lastConnectionTime' = TimeKept(action, passes)
                /\ UNCHANGED lastIdentityFetch
           ELSE /\ lastIdentityFetch' =
                     IF TimeKept(action, passes) = 0
                       THEN lastIdentityFetch
                       ELSE (action :> TimeKept(action, passes)) @@ lastIdentityFetch
                /\ UNCHANGED lastConnectionTime
      /\ accepts' = (action :>
           IF passes
             THEN [ChecksOf(action) EXCEPT !.accepted = Append(@, DateNow)]
             ELSE [ChecksOf(action) EXCEPT !.rejected = Append(@, DateNow)])
           @@ accepts

\* connectWallet: the cooldown check, the provider's answer, the random
\* wallet
ConnectWallet(provider, privateKey) ==
  /\ CheckRateLimit(ConnectAction)
  /\ IF ~RateLimitPasses(ConnectAction)
       THEN /\ ret' = [op |-> "connectWallet", outcome |-> "throw", at |-> DateNow,
                       provider |-> "not asked", wallet |-> NoWallet,
                       error |-> CooldownError(ConnectAction)]
            /\ UNCHANGED connected
       ELSE IF provider = "accounts"
       THEN /\ ret' = [op |-> "connectWallet", outcome |-> "return", at |-> DateNow,
                       provider |-> provider, wallet |-> AddressOf(privateKey),
                       error |-> "none"]
            /\ connected' = TRUE
       ELSE /\ ret' = [op |-> "connectWallet", outcome |-> "throw", at |-> DateNow,
                       provider |-> provider, wallet |-> NoWallet,
                       error |-> "No accounts found"]
            /\ UNCHANGED connected
  /\ UNCHANGED <<credentialService, limiter, secureStorage, monitor, apiClient, hook,
                 now, earlier, fetches>>

\* The hook's disconnect with secureWeb3Service.disconnect: the provider
\* and the wallet of the web3 service and the hook's state are reset;
\* nothing of the credential service is touched.  What the service holds at
\* this moment is recorded as belonging to an earlier session.
Disconnect ==
  /\ connected
  /\ connected' = FALSE
  /\ earlier' = [credentials |-> earlier.credentials \cup DOMAIN credentials,
                 requests    |-> earlier.requests
                                   \cup {pendingRequests[i].id : i \in 1..Len(pendingRequests)}]
  /\ hookState' = InitialHookState
  /\ ret' = NoResult
  /\ UNCHANGED <<credentialService, limiter, secureStorage, monitor, apiClient,
                 cooldowns, hookCall, now>>

\* The identity getIdentity builds (the fields that depend on the address)
IdentityOf(address) == [address |-> address, did |-> DidOf(address)]

\* getIdentity up to its await: the cooldown check, then the timer of the
\* simulated request is started
GetIdentityStart(address) ==
  /\ CheckRateLimit(IdentityAction(address))
  /\ IF RateLimitPasses(IdentityAction(address))
       THEN /\ fetches' = fetches \cup {[address |-> address,
                                         dueAt |-> DateNow + IdentityRequestMs]}
            /\ ret' = NoResult
       ELSE /\ ret' = [op |-> "getIdentity", outcome |-> "throw", at |-> DateNow,
                       address |-> address, identity |-> NoIdentity,
                       error |-> CooldownError(IdentityAction(address))]
            /\ UNCHANGED fetches
  /\ UNCHANGED <<credentialService, limiter, session, secureStorage, monitor,
                 apiClient, hook, now>>

\* getIdentity after its await
GetIdentityFinish(fetch) ==
  /\ fetch \in fetches
  /\ DateNow >= fetch.dueAt
  /\ fetches' = fetches \ {fetch}
  /\ ret' = [op |-> "getIdentity", outcome |-> "return", at |-> DateNow,
             address |-> fetch.address, identity |-> IdentityOf(fetch.address),
             error |-> "none"]
  /\ UNCHANGED <<credentialService, limiter, session, secureStorage, monitor,
                 apiClient, hook, now, lastConnectionTime, lastIdentityFetch, accepts>>

\* The limiter after an isAllowed call made by the web3 service
LimiterAsked(key) ==
  /\ requests' = AfterIsAllowed(requests, key, RateLimitRequests, RateLimitWindow, now)
  /\ uncleaned' = AfterIsAllowed(uncleaned, key, RateLimitRequests, RateLimitWindow, now)
  /\ history' = (key :>
       [configs   |-> HistoryOf(key).configs \cup {<<RateLimitRequests, RateLimitWindow>>},
        allowedAt |-> IF Allowed(requests, key, RateLimitRequests, RateLimitWindow, now)
                        THEN Append(HistoryOf(key).allowedAt, now)
                        ELSE HistoryOf(key).allowedAt]) @@ history

\* securityMonitor.logSecurityEvent as the web3 service calls it
Logs(type, severity) ==
  LET event == [type |-> type, severity |-> severity, details |-> [errorRate |-> 0]]
  IN  /\ events' = Pushed(events, event)
      /\ logged' = Append(logged, event)

\* SecureWeb3Service.signMessage: the wallet check comes before the try block, whose catch
\* logs; inside it the limiter is asked and the message is signed
ServiceSignMessage ==
  /\ IF ~connected
       THEN /\ ret' = Throw("signMessage", "Wallet not connected")
            /\ UNCHANGED <<limiter, monitor>>
       ELSE /\ LimiterAsked("sign")
            /\ IF Allowed(requests, "sign", RateLimitRequests, RateLimitWindow, now)
                 THEN /\ Logs("MESSAGE_SIGNED", "MEDIUM")
                      /\ ret' = [op |-> "signMessage", outcome |-> "return"]
                 ELSE /\ Logs("MESSAGE_SIGNING_FAILED", "HIGH")
                      /\ ret' = Throw("signMessage", "Too many signing attempts")
  /\ UNCHANGED <<credentialService, session, secureStorage, apiClient, cooldowns,
                 hook, now>>

\* The transactions handed to sendTransaction: whether validateTransaction
\* accepts them
Transactions == {"valid", "invalid"}

\* What the wallet's sendTransaction does
SendOutcomes == {"sent", "failed"}

\* sendTransaction: as signMessage, with the validation and the wallet's
\* sendTransaction inside the try block
SendTransaction(transaction, outcome) ==
  /\ IF ~connected
       THEN /\ ret' = Throw("sendTransaction", "Wallet not connected")
            /\ UNCHANGED <<limiter, monitor>>
       ELSE /\ LimiterAsked("transaction")
            /\ IF ~Allowed(requests, "transaction", RateLimitRequests, RateLimitWindow, now)
                 THEN /\ Logs("TRANSACTION_FAILED", "HIGH")
                      /\ ret' = Throw("sendTransaction", "Too many transaction attempts")
               ELSE IF transaction = "invalid"
                 THEN /\ Logs("TRANSACTION_FAILED", "HIGH")
                      /\ ret' = Throw("sendTransaction", "Invalid transaction parameters")
               ELSE IF outcome = "failed"
                 THEN /\ Logs("TRANSACTION_FAILED", "HIGH")
                      /\ ret' = Throw("sendTransaction", "wallet.sendTransaction failed")
               ELSE /\ Logs("TRANSACTION_SENT", "HIGH")
                    /\ ret' = [op |-> "sendTransaction", outcome |-> "return"]
  /\ UNCHANGED <<credentialService, session, secureStorage, apiClient, cooldowns,
                 hook, now>>

\* ------------------------------------------- the useWeb3Identity hook

\* What the hook's connectWallet or syncIdentity call hands back when it
\* ends (both resolve to undefined): whether the service connected a wallet
\* in the call, which, and what became of the identity fetch
HookEnds(op, didConnect, address, sync) ==
  [op |-> op, outcome |-> "return", connected |-> didConnect, wallet |-> address,
   sync |-> sync]

\* syncIdentity as a call made with the closure of one render: closure is
\* state.wallet as that render saw it, state the hook's state when the call
\* starts.  The call sets the error and returns when its closure has no
\* wallet; otherwise it calls getIdentity for the closure's wallet, which
\* throws within the cooldown or starts the request.
SyncIdentity(op, closure, state, didConnect, address) ==
  IF closure = NoWallet
    THEN /\ hookState' = [state EXCEPT !.error = "Wallet not connected"]
         /\ hookCall' = IdleCall
         /\ ret' = HookEnds(op, didConnect, address, "not called")
         /\ UNCHANGED <<lastIdentityFetch, accepts>>
    ELSE /\ lastIdentityFetch' =
              (IdentityAction(closure) :>
                 TimeKept(IdentityAction(closure), RateLimitPasses(IdentityAction(closure))))
              @@ lastIdentityFetch
         /\ accepts' = (IdentityAction(closure) :>
              IF RateLimitPasses(IdentityAction(closure))
                THEN [ChecksOf(IdentityAction(closure)) EXCEPT !.accepted = Append(@, DateNow)]
                ELSE [ChecksOf(IdentityAction(closure)) EXCEPT !.rejected = Append(@, DateNow)])
              @@ accepts
         /\ IF RateLimitPasses(IdentityAction(closure))
              THEN /\ hookState' = [state EXCEPT !.isLoading = TRUE, !.error = "null"]
                   /\ hookCall' = [pc |-> "sync", op |-> op, closure |-> closure,
                                   connected |-> didConnect, wallet |-> address,
                                   dueAt |-> DateNow + IdentityRequestMs]
                   /\ ret' = NoResult
              ELSE /\ hookState' = [state EXCEPT
                                      !.isLoading = FALSE,
                                      !.error = "Failed to sync identity"]
                   /\ hookCall' = IdleCall
                   /\ ret' = HookEnds(op, didConnect, address, "cooldown")

\* The hook's connectWallet up to its await: the state is set to
\* connecting and secureWeb3Service.connectWallet runs its cooldown check;
\* the error it throws is caught by the hook.  The call keeps the
\* syncIdentity of the render it was created in.
HookConnectWallet ==
  /\ hookCall = IdleCall
  /\ CheckRateLimit(ConnectAction)
  /\ IF RateLimitPasses(ConnectAction)
       THEN /\ hookState' = [hookState EXCEPT !.isConnecting = TRUE, !.error = "null"]
            /\ hookCall' = [pc |-> "connect", op |-> "hook.connectWallet",
                            closure |-> hookState.wallet, connected |-> FALSE,
                            wallet |-> NoWallet, dueAt |-> 0]
            /\ ret' = NoResult
       ELSE /\ hookState' = [hookState EXCEPT !.isConnecting = FALSE,
                                              !.error = "Failed to connect"]
            /\ hookCall' = IdleCall
            /\ ret' = HookEnds("hook.connectWallet", FALSE, NoWallet, "not called")
  /\ UNCHANGED <<credentialService, limiter, session, secureStorage, monitor,
                 apiClient, now, fetches>>

\* The hook's connectWallet after its await: without accounts the error is
\* caught; with accounts the random wallet is put into the state and
\* syncIdentity is called
HookWalletConnected(provider, privateKey) ==
  /\ hookCall.pc = "connect"
  /\ IF provider = "accounts"
       THEN /\ connected' = TRUE
            /\ SyncIdentity("hook.connectWallet", hookCall.closure,
                            [hookState EXCEPT !.wallet = AddressOf(privateKey),
                                              !.isConnecting = FALSE],
                            TRUE, AddressOf(privateKey))
       ELSE /\ hookState' = [hookState EXCEPT !.isConnecting = FALSE,
                                              !.error = "Failed to connect"]
            /\ hookCall' = IdleCall
            /\ ret' = HookEnds("hook.connectWallet", FALSE, NoWallet, "not called")
            /\ UNCHANGED <<connected, lastIdentityFetch, accepts>>
  /\ UNCHANGED <<credentialService, limiter, secureStorage, monitor, apiClient,
                 now, earlier, lastConnectionTime, fetches>>

\* syncIdentity called from the latest render
HookSyncIdentity ==
  /\ hookCall = IdleCall
  /\ SyncIdentity("hook.syncIdentity", hookState.wallet, hookState, FALSE,
                  hookState.wallet)
  /\ UNCHANGED <<credentialService, limiter, session, secureStorage, monitor,
                 apiClient, now, lastConnectionTime, fetches>>

\* syncIdentity after its await: the identity of the closure's wallet is
\* put into the state
HookIdentityFetched ==
  /\ hookCall.pc = "sync"
  /\ DateNow >= hookCall.dueAt
  /\ hookState' = [hookState EXCEPT !.identity = IdentityOf(hookCall.closure),
                                    !.isLoading = FALSE]
  /\ hookCall' = IdleCall
  /\ ret' = HookEnds(hookCall.op, hookCall.connected, hookCall.wallet, "fetched")
  /\ UNCHANGED <<credentialService, limiter, session, secureStorage, monitor,
                 apiClient, cooldowns, now>>

\* ---------------------------------------------------------------- clock

Tick ==
  /\ now < MaxTime
  /\ now' = now + 1
  /\ ret' = NoResult
  /\ UNCHANGED <<utilities, limiter, session, wallet, encryptionKey, credentials, pendingRequests, uuids, keys,
                 initCall, issueCalls, discloseCall, issued, ivs>>

\* -------------------------------------------------------- the caller

\* The caller takes the result of the call that just completed
TakeResult ==
  /\ ret # NoResult
  /\ ret' = NoResult
  /\ UNCHANGED <<utilities, limiter, session, wallet, encryptionKey, credentials, pendingRequests, now, uuids,
                 keys, initCall, issueCalls, discloseCall, issued, ivs>>

\* No call is in flight and the caller has taken the last result
Ready ==
  /\ ret = NoResult
  /\ initCall = "idle"
  /\ issueCalls = EmptyMap
  /\ discloseCall = IdleCall

\* -------------------------------------------------------- specification

\* Calls made one after the other: a call starts when the service is Ready;
\* the clock runs whenever no result waits for the caller.  The counters
\* are capped where a call starts.
Next ==
  \/ Ready /\ keys < MaxKeys
       /\ \E privateKey \in PrivateKeys : InitializeStart(privateKey)
  \/ InitializeKeyGenerated
  \/ InitializeKeyFailed
  \/ Ready /\ GetDID
  \/ Ready /\ uuids < MaxCredentials
       /\ \E subject \in Subjects, expirationDate \in ExpirationDates :
            IssueStart(subject, expirationDate)
  \/ \E id \in DOMAIN issueCalls : IssueSigned(id)
  \/ \E id \in DOMAIN issueCalls : IssueStored(id)
  \/ \E id \in DOMAIN issueCalls : IssueEncryptFailed(id)
  \/ Ready /\ \E id \in 1..MaxUuid : GetCredential(id)
  \/ Ready /\ GetAllCredentialMetadata
  \/ Ready /\ \E credential \in VerifyInputs : VerifyCredentialCall(credential)
  \/ Ready /\ uuids < MaxUuid
       /\ \E credentialId \in 1..MaxUuid, fields \in FieldLists :
            DiscloseStart(credentialId, fields, MaxTime)
  \/ DiscloseFinish
  \/ Ready /\ Len(pendingRequests) < MaxQueue
       /\ ReceiveCredentialRequest(CoreRequest)
  \/ ret = NoResult /\ Tick
  \/ TakeResult

Spec == Init /\ [][Next]_vars

\* The rate limiter alone: calls with any key, limit and window, the
\* cleanup timer firing at any time, time passing from instant to instant.
LimiterNext ==
  \/ ret = NoResult /\ AllowedCalls < MaxCalls
       /\ \E key \in LimiterKeys, limit \in Limits, window \in WindowsMs :
            IsAllowed(key, limit, window)
  \/ ret = NoResult /\ Cleanup
  \/ ret = NoResult /\ \E t \in Instants : Wait(t)
  \/ TakeResult

LimiterSpec == Init /\ [][LimiterNext]_vars

\* The request queue alone: requests with either id and expiry are
\* received, listed and responded to while time passes.
RequestNext ==
  \/ ret = NoResult /\ Len(pendingRequests) < MaxRequests
       /\ \E request \in RequestInputs : ReceiveCredentialRequest(request)
  \/ ret = NoResult /\ GetPendingRequests
  \/ ret = NoResult
       /\ \E requestId \in RequestIds, approved \in BOOLEAN :
            RespondToRequest(requestId, approved)
  \/ ret = NoResult /\ Tick
  \/ TakeResult

RequestSpec == Init /\ [][RequestNext]_vars

\* Issuance to either of two subjects that differ in personal data only,
\* and the metadata listing.
ListingNext ==
  \/ Ready /\ keys < MaxKeys
       /\ \E privateKey \in PrivateKeys : InitializeStart(privateKey)
  \/ InitializeKeyGenerated
  \/ InitializeKeyFailed
  \/ Ready /\ uuids < MaxListed
       /\ \E subject \in TwinSubjects : IssueStart(subject, <<MaxTime>>)
  \/ \E id \in DOMAIN issueCalls : IssueSigned(id)
  \/ \E id \in DOMAIN issueCalls : IssueStored(id)
  \/ \E id \in DOMAIN issueCalls : IssueEncryptFailed(id)
  \/ Ready /\ GetAllCredentialMetadata
  \/ ret = NoResult /\ Tick
  \/ TakeResult

ListingSpec == Init /\ [][ListingNext]_vars

\* How many times the session run connects a wallet
MaxSessions == 2

\* Sessions: a wallet is connected, which initializes the credential
\* service with the wallet's key; credentials are issued, requests are
\* received and both are listed while connected; the wallet is
\* disconnected and connected again.
SessionNext ==
  \/ Ready /\ ~connected /\ Checked(ConnectAction) < MaxSessions
       /\ \E privateKey \in {k \in PrivateKeys : ValidPrivateKey(k)} :
            ConnectWallet("accounts", privateKey)
  \/ Ready /\ connected /\ keys < MaxKeys
       /\ \E privateKey \in {k \in PrivateKeys : ValidPrivateKey(k)} :
            InitializeStart(privateKey)
  \/ InitializeKeyGenerated
  \/ InitializeKeyFailed
  \/ Ready /\ connected /\ uuids < MaxListed
       /\ IssueStart(SubjectJane, Undefined)
  \/ \E id \in DOMAIN issueCalls : IssueSigned(id)
  \/ \E id \in DOMAIN issueCalls : IssueStored(id)
  \/ \E id \in DOMAIN issueCalls : IssueEncryptFailed(id)
  \/ Ready /\ connected /\ Len(pendingRequests) < MaxQueue
       /\ ReceiveCredentialRequest(CoreRequest)
  \/ Ready /\ connected /\ GetAllCredentialMetadata
  \/ Ready /\ connected /\ GetPendingRequests
  \/ Ready /\ Disconnect
  \/ ret = NoResult /\ Wait(connectionCooldown)
  \/ TakeResult

SessionSpec == Init /\ [][SessionNext]_vars

\* Calls that interleave at their awaits: initialize and issueCredential
\* calls start while others are suspended, and every suspended call
\* resumes in any order.
ConcurrentNext ==
  \/ ret = NoResult /\ keys < MaxKeys
       /\ \E privateKey \in PrivateKeys : InitializeStart(privateKey)
  \/ ret = NoResult /\ InitializeKeyGenerated
  \/ ret = NoResult /\ InitializeKeyFailed
  \/ ret = NoResult /\ uuids < MaxConcurrent
       /\ \E subject \in Subjects : IssueStart(subject, Undefined)
  \/ ret = NoResult /\ \E id \in DOMAIN issueCalls : IssueSigned(id)
  \/ ret = NoResult /\ \E id \in DOMAIN issueCalls : IssueStored(id)
  \/ ret = NoResult /\ \E id \in DOMAIN issueCalls : IssueEncryptFailed(id)
  \/ ret = NoResult /\ \E id \in 1..MaxConcurrent : GetCredential(id)
  \/ ret = NoResult /\ GetAllCredentialMetadata
  \/ TakeResult

ConcurrentSpec == Init /\ [][ConcurrentNext]_vars

\* The secure storage alone: it is initialized with a key, items are set
\* and read back.
StorageNext ==
  \/ ret = NoResult
       /\ \E encryptionKey_ \in 1..MaxKeys : SecureStorageInitialize(encryptionKey_)
  \/ ret = NoResult
       /\ \E key \in StorageKeys, value \in StoredValues : SetItem(key, value)
  \/ ret = NoResult /\ \E key \in StorageKeys : GetItem(key)
  \/ TakeResult

StorageSpec == Init /\ [][StorageNext]_vars

\* How many events the monitor run logs
MaxLogged == 1002

\* The monitor run logs any event among its first MaxVaried and once the
\* log is full, and one kind of event in between
MaxVaried == 2

Varied == Len(logged) < MaxVaried \/ Len(logged) >= MAX_EVENTS

\* The security monitor alone: events are logged and metrics are examined
\* until the log has overflowed.
MonitorNext ==
  \/ ret = NoResult /\ Len(logged) < MaxLogged
       /\ \E event \in EventInputs :
            /\ Varied \/ event.type = "MESSAGE_SIGNED"
            /\ LogSecurityEvent(event)
  \/ ret = NoResult /\ Len(logged) < MaxLogged /\ Varied
       /\ \E errorRate \in ErrorRates : DetectAnomalies(errorRate)
  \/ TakeResult

MonitorSpec == Init /\ [][MonitorNext]_vars

\* The API client's retry loop alone: calls with either retry delay, every
\* outcome of every fetch, time passing from instant to instant.
FetchNext ==
  \/ ret = NoResult /\ \E retryDelay \in RetryDelayOptions : FetchStart(retryDelay)
  \/ ret = NoResult /\ \E outcome \in FetchOutcomes : FetchAttempt(outcome)
  \/ ret = NoResult /\ FetchResume
  \/ ret = NoResult /\ \E t \in FetchInstants : Wait(t)
  \/ TakeResult

FetchSpec == Init /\ [][FetchNext]_vars

\* The instants (ms) at which the cooldown run reads the clock
CooldownInstants == {999, 1000, 1999, 2000, 3000}

\* How many connectWallet calls and how many getIdentity calls the
\* cooldown run makes
MaxConnects == 3

MaxFetches == 3

FetchesChecked ==
  Checked(IdentityAction("0xAAA1")) + Checked(IdentityAction("0xBbB2"))

\* The cooldowns of the web3 service: wallets are connected, then
\* identities are fetched for either address, while time passes.
CooldownNext ==
  \/ ret = NoResult /\ Checked(ConnectAction) < MaxConnects /\ FetchesChecked = 0
       /\ \E provider \in ProviderOutcomes : ConnectWallet(provider, "k1")
  \/ ret = NoResult /\ FetchesChecked < MaxFetches
       /\ \E address \in IdentityAddresses : GetIdentityStart(address)
  \/ ret = NoResult /\ \E fetch \in fetches : GetIdentityFinish(fetch)
  \/ ret = NoResult /\ \E t \in CooldownInstants : Wait(t)
  \/ TakeResult

CooldownSpec == Init /\ [][CooldownNext]_vars

\* How many events the web3 run logs, and how many transactions it sends
MaxSigned == 12

MaxTransactions == 2

\* The web3 service with the monitor: a wallet is connected and
\* disconnected, messages are signed and transactions sent with and without
\* a wallet, a credential is asked of the credential service, which no one
\* has initialized.
Web3Next ==
  \/ ret = NoResult /\ ~connected /\ Checked(ConnectAction) < MaxConnects
       /\ \E provider \in ProviderOutcomes : ConnectWallet(provider, "k1")
  \/ ret = NoResult /\ Disconnect
  \/ ret = NoResult /\ Len(logged) < MaxSigned /\ ServiceSignMessage
  \/ ret = NoResult /\ Len(logged) < MaxSigned
       /\ Len(TimestampsOf(uncleaned, "transaction")) < MaxTransactions
       /\ \E transaction \in Transactions, outcome \in SendOutcomes :
            SendTransaction(transaction, outcome)
  \/ ret = NoResult /\ IssueStart(SubjectJane, Undefined)
  \/ ret = NoResult /\ now < connectionCooldown /\ Wait(connectionCooldown)
  \/ TakeResult

Web3Spec == Init /\ [][Web3Next]_vars

\* The instants (ms) at which the hook run reads the clock
HookInstants == {1000, 2000, 3000, 4000}

\* The hook: the user connects a wallet, syncs the identity, disconnects
\* and connects again (each call made from the latest render, once the call
\* before it has ended) while time passes.  Every wallet the service
\* creates is a new one.
HookNext ==
  \/ ret = NoResult /\ Checked(ConnectAction) < MaxConnects /\ HookConnectWallet
  \/ ret = NoResult
       /\ \E provider \in ProviderOutcomes :
            \E privateKey \in {k \in PrivateKeys : /\ ValidPrivateKey(k)
                                                    /\ AddressOf(k) # hookState.wallet} :
              HookWalletConnected(provider, privateKey)
  \/ ret = NoResult /\ FetchesChecked < MaxFetches /\ HookSyncIdentity
  \/ ret = NoResult /\ HookIdentityFetched
  \/ ret = NoResult /\ hookCall = IdleCall /\ Disconnect
  \/ ret = NoResult /\ \E t \in HookInstants : Wait(t)
  \/ TakeResult

HookSpec == Init /\ [][HookNext]_vars

\* ================================================================ claims

\* The credentials issueCredential has returned
IssuedCredentials == Range(issued)

\* A completed verifyCredential call
Verified == ret.op = "verifyCredential"

\* The expiration date of the credential is set and earlier than time t
ExpiresBefore(credential, t) ==
  /\ credential.expirationDate # Undefined
  /\ credential.expirationDate[1] < t

\* C1 as stated: verifyCredential returns true on every credential that
\* issueCredential returned, here even when called at the very time of
\* issuance.
C1_VerifiesWhateverTheExpiration ==
  (Verified /\ ret.credential \in IssuedCredentials
     /\ ret.credential.issuanceDate = ToISOString(now))
    => ret.result = TRUE

\* C1 amended: verifyCredential returns true on every credential that
\* issueCredential returned whose expirationDate is absent or not earlier
\* than the time of the verification.
C1_VerifiesUnexpiredIssued ==
  (Verified /\ ret.credential \in IssuedCredentials
     /\ ~ExpiresBefore(ret.credential, now))
    => ret.result = TRUE

\* An issued credential with an expiration date not yet passed was verified.
C1_Witness ==
  /\ Verified
  /\ ret.credential \in IssuedCredentials
  /\ ret.credential.expirationDate # Undefined
  /\ ret.result = TRUE

\* The value read at path p of a subject (undefined when the key is absent)
ReadLeaf(subject, p) == IF p \in DOMAIN subject THEN subject[p] ELSE Undefined

\* Two credentials read the same in every field
SameInEveryField(a, b) ==
  /\ [a EXCEPT !.credentialSubject = {}] = [b EXCEPT !.credentialSubject = {}]
  /\ \A p \in DOMAIN a.credentialSubject \cup DOMAIN b.credentialSubject :
       ReadLeaf(a.credentialSubject, p) = ReadLeaf(b.credentialSubject, p)

\* The key the stored record of id was encrypted with
StoredUnderKey(id) == FromBase64(credentials[id].encryptedData[2]).key

\* C2: getCredential(c.id) returns a credential equal to the issued c in
\* every field, proof included, as long as the encryption key is still the
\* one c was stored with (no initialize in between).
C2_RoundTrip ==
  (ret.op = "getCredential" /\ ret.outcome = "return"
     /\ ret.id \in DOMAIN issued
     /\ StoredUnderKey(ret.id) = encryptionKey)
    => /\ ret.credential # NullCredential
       /\ SameInEveryField(ret.credential, issued[ret.id])

\* An issued credential whose subject holds an undefined field (which the
\* stored JSON drops) was read back.
C2_Witness ==
  /\ ret.op = "getCredential"
  /\ ret.outcome = "return"
  /\ ret.id \in DOMAIN issued
  /\ ret.credential # NullCredential
  /\ \E p \in DOMAIN issued[ret.id].credentialSubject :
       issued[ret.id].credentialSubject[p] = Undefined
  /\ ret.credential # issued[ret.id]

\* C3: verifyCredential returns false on an issued credential one of whose
\* credentialSubject fields was changed to a different value, the proof
\* left as issued.
C3_TamperRejected ==
  (Verified /\ \E c \in IssuedCredentials : ret.credential \in Tampered(c))
    => ret.result = FALSE

\* A tampered credential that has not expired was rejected by the signature
\* check.
C3_Witness ==
  /\ Verified
  /\ \E c \in IssuedCredentials : ret.credential \in Tampered(c)
  /\ ~ExpiresBefore(ret.credential, now)
  /\ ret.recovery = TRUE
  /\ ret.result = FALSE

\* C4: verifyCredential returns false, without reaching signature recovery,
\* on every credential whose expirationDate is set and earlier than the
\* current time, whatever its proof.
C4_ExpiryShortCircuit ==
  (Verified /\ ExpiresBefore(ret.credential, now))
    => /\ ret.result = FALSE
       /\ ret.recovery = FALSE

\* An expired credential carrying the valid signature it was issued with
\* was rejected.
C4_Witness ==
  /\ Verified
  /\ ret.credential \in IssuedCredentials
  /\ ExpiresBefore(ret.credential, now)
  /\ ret.result = FALSE

\* The operations guarded by the wallet
WalletGuarded == {"getDID", "issueCredential", "createSelectiveDisclosure"}

UninitializedErrors == {"Wallet not initialized", "Encryption key not initialized"}

C6_InitializeFailsClosed ==
  (ret.op = "initialize" /\ ret.success = FALSE /\ keys = 0)
    => /\ wallet = NoWallet
       /\ encryptionKey = NoKey

\* A createSelectiveDisclosure call that returned a disclosure
DisclosureReturned ==
  /\ ret.op = "createSelectiveDisclosure"
  /\ ret.outcome = "return"
  /\ ret.disclosure # NullDisclosure

\* The data the signature of the returned disclosure covers
SignedData == JSONParse(ret.disclosure.proof.payload.data)

\* Path p is one of the requested paths or lies below one
Requested(fields, p) == \E i \in 1..Len(fields) : IsPrefix(fields[i], p)

\* C7: every leaf of the signed disclosure data is found, with the same
\* value, at the same path of the subject of the issued credential, and
\* every path of the data is a requested path or lies below one.
C7_SubsetLaw ==
  DisclosureReturned
    => /\ ret.credentialId \in DOMAIN issued
       /\ \A p \in DOMAIN SignedData :
            /\ p \in DOMAIN issued[ret.credentialId].credentialSubject
            /\ SignedData[p] = issued[ret.credentialId].credentialSubject[p]
            /\ Requested(ret.requested, p)

\* A disclosure of a whole object and of a field inside it.
C7_Witness ==
  /\ DisclosureReturned
  /\ ret.requested = <<<<"name">>, <<"name", "firstName">>>>
  /\ Cardinality(DOMAIN SignedData) >= 2

\* C8 as stated: every path listed in disclosedFields resolves in the
\* subject of the source credential.
C8_DisclosedFieldsExist ==
  DisclosureReturned
    => \A i \in 1..Len(ret.disclosure.disclosedFields) :
         WalkKeys(ret.loaded.credentialSubject, ret.disclosure.disclosedFields[i])
           # UndefinedVal

\* C9: a source credential that loads and verifies always yields a
\* disclosure, and its signed data holds a value at path p exactly when p
\* is a path of the subject at or below a requested path, with the
\* subject's value; requested paths that do not resolve add nothing.
C9_ExactExtraction ==
  (ret.op = "createSelectiveDisclosure" /\ ret.outcome = "return"
     /\ ret.loaded # NullCredential
     /\ VerifyCredential(ret.loaded, now).result)
    => /\ ret.disclosure # NullDisclosure
       /\ LET subject == ret.loaded.credentialSubject
          IN  /\ DOMAIN SignedData =
                   {p \in DOMAIN subject : Requested(ret.requested, p)}
              /\ \A p \in DOMAIN SignedData : SignedData[p] = subject[p]

\* Disclosing ["name.firstName"] of Jane's credential signed the data
\* {name: {firstName: "Jane"}}.
C9_Witness ==
  /\ DisclosureReturned
  /\ ret.requested = <<<<"name", "firstName">>>>
  /\ SignedData = [p \in {<<"name", "firstName">>} |-> Str("Jane")]

\* The record of id is absent or was stored under another key than the
\* current one
NotLoadable(id) ==
  \/ id \notin DOMAIN credentials
  \/ StoredUnderKey(id) # encryptionKey

\* C10: a createSelectiveDisclosure call returns null and draws no uuid
\* when the credential is not stored, cannot be decrypted or does not
\* verify; and no step of the call changes the stored credentials or the
\* request queue.
C10_NullAndFrame ==
  [][ /\ discloseCall' # discloseCall
           => UNCHANGED <<credentials, pendingRequests>>
      /\ (ret'.op = "createSelectiveDisclosure" /\ ret'.outcome = "return"
            /\ \/ NotLoadable(ret'.credentialId)
               \/ ret'.loaded = NullCredential
               \/ ~VerifyCredential(ret'.loaded, now).result)
           => /\ ret'.disclosure = NullDisclosure
              /\ uuids' = uuids ]_vars

\* The disclosure of a stored credential that has expired came back null
\* while a request was queued.
C10_Witness ==
  /\ ret.op = "createSelectiveDisclosure"
  /\ ret.outcome = "return"
  /\ ret.loaded # NullCredential
  /\ ExpiresBefore(ret.loaded, now)
  /\ ret.disclosure = NullDisclosure
  /\ pendingRequests # <<>>

\* The timestamps of seq that lie in the closed interval [from, to]
Within(seq, from, to) == {i \in 1..Len(seq) : from <= seq[i] /\ seq[i] <= to}

\* Key was asked with one limit and one window only
OneConfig(key) == Cardinality(history[key].configs) = 1

\* C11 as stated: for a key always asked with the same limit L and window
\* W, no W-millisecond window (the W instants ending at an allowed call)
\* holds more than L allowed calls.
C11_SlidingWindowLimit ==
  \A key \in DOMAIN history :
    OneConfig(key) =>
      \A config \in history[key].configs :
        LET allowedAt == history[key].allowedAt
        IN  \A i \in 1..Len(allowedAt) :
              Cardinality(Within(allowedAt, allowedAt[i] - config[2] + 1, allowedAt[i]))
                <= config[1]

\* C12 as stated: isAllowed returns true exactly when fewer than limit
\* recorded timestamps of the key lie in the closed interval
\* [now - windowMs, now].
C12_ClosedWindowCount ==
  ret.op = "isAllowed"
    => (ret.allowed <=>
          Cardinality(Within(ret.recorded, now - ret.window, now)) < ret.limit)

\* C13 as stated: every isAllowed call returns what the same call returns
\* in the run without cleanup.
C13_CleanupChangesNoResult ==
  ret.op = "isAllowed" => ret.allowed = ret.allowedUncleaned

\* A completed getPendingRequests call
Listed == ret.op = "getPendingRequests"

\* The request is pending and its expiresAt is not before time t
OpenAt(request, t) ==
  /\ request.status = "pending"
  /\ ~(request.expiresAt[1] < t)

\* C14: getPendingRequests returns, in queue order, exactly the queued
\* requests that are pending and whose expiresAt is not before the
\* current time, and its step changes no stored request.
C14_PendingView ==
  [][ret'.op = "getPendingRequests"
       => /\ pendingRequests' = pendingRequests
          /\ ret'.pending = SelectSeq(pendingRequests, LAMBDA r : OpenAt(r, now))]_vars

\* A request whose stored status is still 'pending' was left out of the
\* listing because its expiresAt has passed, while another was listed.
C14_Witness ==
  /\ Listed
  /\ Len(ret.pending) = 1
  /\ \E i \in 1..Len(pendingRequests) :
       /\ pendingRequests[i].status = "pending"
       /\ pendingRequests[i].expiresAt[1] < now

\* C15 as stated: a request whose status is no longer 'pending' keeps its
\* status in every step.
C15_StatusChangesOnce ==
  [][\A i \in 1..Len(pendingRequests) :
       pendingRequests[i].status # "pending"
         => pendingRequests'[i].status = pendingRequests[i].status]_vars

\* C16: receiveCredentialRequest throws and leaves the queue as it was
\* when the request's expiresAt is earlier than the current time;
\* otherwise it appends the request; in both cases nothing else of the
\* service changes.
C16_ReceiveOrReject ==
  [][ret'.op = "receiveCredentialRequest"
       => /\ IF ret'.request.expiresAt[1] < now
               THEN /\ ret'.outcome = "throw"
                    /\ pendingRequests' = pendingRequests
               ELSE /\ ret'.outcome = "return"
                    /\ pendingRequests' = Append(pendingRequests, ret'.request)
          /\ UNCHANGED <<wallet, encryptionKey, credentials, issued, uuids, now>>]_vars

\* An expired request was refused while another request was queued.
C16_Witness ==
  /\ ret.op = "receiveCredentialRequest"
  /\ ret.outcome = "throw"
  /\ ret.request.expiresAt[1] < now
  /\ pendingRequests # <<>>

\* C17 as stated: verifyCredential and getCredential never throw, in any
\* service state.
C17_NeverThrow ==
  ret.op \in {"verifyCredential", "getCredential"} => ret.outcome = "return"

\* C17 amended: verifyCredential never throws and answers false on a
\* credential without a signature; getCredential never throws once an
\* encryption key is set, and answers null for a record that is missing
\* or does not decrypt under the current key.
C17_NoThrowOnceKeyed ==
  /\ ret.op = "verifyCredential"
       => /\ ret.outcome = "return"
          /\ ~IsSignature(ret.credential.proof.proofValue) => ret.result = FALSE
  /\ (ret.op = "getCredential" /\ encryptionKey # NoKey)
       => /\ ret.outcome = "return"
          /\ NotLoadable(ret.id) => ret.credential = NullCredential

\* getCredential answered null for a record stored under the key of an
\* earlier initialize.
C17_Witness ==
  /\ ret.op = "getCredential"
  /\ ret.outcome = "return"
  /\ ret.id \in DOMAIN credentials
  /\ StoredUnderKey(ret.id) # encryptionKey
  /\ ret.credential = NullCredential

MetadataFields == {"issuer", "issuanceDate", "expirationDate", "credentialType", "status"}

\* The credential the run would have issued in place of `credential` had
\* the caller passed `subject`: the same wallet, id, time and expiration
TwinCredential(credential, subject) ==
  WithProofValue(
    BuildCredential(credential.issuer.id[3], credential.id,
                    ParseDate(credential.issuanceDate), subject,
                    credential.expirationDate),
    EmptySignature)

\* The listing entry of the record stored for `credential`
ListingEntry(credential) ==
  [id       |-> credential.id,
   metadata |-> EncryptedCredentialOf(credential, 0, 0).publicMetadata]

\* C18: getAllCredentialMetadata returns, whatever the encryption key,
\* one entry per stored credential holding the five metadata fields only,
\* and the listing is the one of the run in which every credential was
\* issued to the other subject, which differs in personal data only.
C18_ListingLeaksNoSubjectData ==
  ret.op = "getAllCredentialMetadata"
    => /\ ret.outcome = "return"
       /\ {entry.id : entry \in ret.listing} = DOMAIN credentials
       /\ Cardinality(ret.listing) = Cardinality(DOMAIN credentials)
       /\ \A entry \in ret.listing :
            /\ DOMAIN entry.metadata = MetadataFields
            /\ \A subject \in TwinSubjects :
                 entry = ListingEntry(TwinCredential(issued[entry.id], subject))

\* Two credentials issued to subjects with different personal data were
\* listed.
C18_Witness ==
  /\ ret.op = "getAllCredentialMetadata"
  /\ Cardinality(ret.listing) = 2
  /\ \E a, b \in ret.listing :
       issued[a.id].credentialSubject[<<"name", "firstName">>]
         # issued[b.id].credentialSubject[<<"name", "firstName">>]

\* The stored record of id holds the encryption, under a generated key and
\* IV, of the credential issueCredential returned for id
HoldsCiphertextOfIssued(id) ==
  /\ id \in DOMAIN issued
  /\ \E key \in 1..keys, iv \in 1..ivs :
       credentials[id].encryptedData =
         EncryptedData(iv, Encrypt(key, iv, StringifyCredential(issued[id])))

\* An issueCredential call is waiting for crypto.subtle.encrypt
Encrypting == \E id \in DOMAIN issueCalls : issueCalls[id].pc = "encrypt"

\* C19: when encrypt fails, issueCredential throws the storage error and
\* the credential map stays as it was; and at all times every record of
\* the map holds the ciphertext of a credential that was returned, never
\* a plaintext and never the credential of a failed call.
C19_EncryptFailureStoresNothing ==
  /\ [](\A id \in DOMAIN credentials : HoldsCiphertextOfIssued(id))
  /\ [][(Encrypting /\ ret'.op = "issueCredential" /\ ret'.outcome = "throw")
          => /\ ret' = Throw("issueCredential", "Failed to store credential securely")
             /\ credentials' = credentials]_vars

\* A second issueCredential failed on encryption and left the map with
\* the one record it held.
C19_Witness ==
  /\ ret = Throw("issueCredential", "Failed to store credential securely")
  /\ Cardinality(DOMAIN credentials) = 1
  /\ uuids = 2

\* C20 as stated: while a wallet is connected, getAllCredentialMetadata
\* and getPendingRequests return nothing that the service held when a
\* wallet was disconnected before.
C20_NothingFromEarlierSessions ==
  connected
    => /\ ret.op = "getAllCredentialMetadata"
            => \A entry \in ret.listing : entry.id \notin earlier.credentials
       /\ ret.op = "getPendingRequests"
            => \A i \in 1..Len(ret.pending) : ret.pending[i].id \notin earlier.requests

\* The IV the stored record of id was encrypted with
StoredWithIv(id) == FromBase64(credentials[id].encryptedData[1])

\* C24: however issueCredential calls interleave at their awaits, every
\* credential returned carries the id of its own call, its record is in
\* the store under that id, and getCredential on the id returns it
\* unchanged (as long as the encryption key is the one it was stored
\* with).
C24_ConcurrentIssuance ==
  /\ \A id \in DOMAIN issued :
       /\ issued[id].id = id
       /\ id \in DOMAIN credentials
       /\ credentials[id].id = id
  /\ (ret.op = "getCredential" /\ ret.outcome = "return"
        /\ ret.id \in DOMAIN issued
        /\ StoredUnderKey(ret.id) = encryptionKey)
       => /\ ret.credential # NullCredential
          /\ SameInEveryField(ret.credential, issued[ret.id])

\* Two calls interleaved (the second reached encryption first), both
\* completed, and the first credential was read back.
C24_Witness ==
  /\ DOMAIN issued = {1, 2}
  /\ StoredWithIv(2) < StoredWithIv(1)
  /\ ret.op = "getCredential"
  /\ ret.outcome = "return"
  /\ ret.id = 1
  /\ ret.credential # NullCredential

\* C25: every credential issueCredential returned has credentialSubject.id
\* equal to issuer.id equal to did:ethr: followed by the lower-cased
\* address of the wallet that signed it, and the issuer of its stored
\* public metadata is the same DID.
C25_SelfIssued ==
  \A id \in DOMAIN issued :
    LET credential == issued[id]
        did == <<"did", "ethr", ToLowerCase(credential.proof.proofValue.signer)>>
    IN  /\ credential.issuer.id = did
        /\ credential.credentialSubject[<<"id">>] = did
        /\ credentials[id].publicMetadata.issuer = did

\* A credential was issued by the wallet with the mixed-case address
\* while an initialize with another key had run in between.
C25_Witness ==
  /\ \E id \in DOMAIN issued :
       /\ issued[id].proof.proofValue.signer = "0xBbB2"
       /\ issued[id].credentialSubject[<<"id">>] = <<"did", "ethr", "0xbbb2">>
  /\ wallet = "0xAAA1"

\* C28 as stated: getCredential on an id that getAllCredentialMetadata
\* lists returns a credential with that id, not null.
C28_ListedIsRetrievable ==
  (ret.op = "getCredential" /\ ret.outcome = "return" /\ ret.id \in DOMAIN credentials)
    => /\ ret.credential # NullCredential
       /\ ret.credential.id = ret.id

\* C29 as stated: after respondToRequest(id, approved) returned,
\* getPendingRequests holds no request with that id.
C29_RespondedNotPending ==
  (ret.op = "respondToRequest" /\ ret.outcome = "return")
    => \A i \in 1..Len(pendingRequests) :
         pendingRequests[i].id = ret.requestId => ~StillPending(pendingRequests[i], now)

\* C21: once the secure storage is initialized with a key, getItem(key)
\* after setItem(key, v) returns v.
C21_RoundTrip ==
  (ret.op = "getItem" /\ ret.key \in DOMAIN written)
    => /\ ret.outcome = "return"
       /\ ~ret.isNull
       /\ ret.value = written[ret.key]

\* The last n elements of a sequence
LastOf(seq, n) == SubSeq(seq, Len(seq) - n + 1, Len(seq))

\* The log holds at most MAX_EVENTS events, the most recently logged ones in
\* logging order
BoundedFifo ==
  /\ Len(events) <= MAX_EVENTS
  /\ Len(events) = IF Len(logged) < MAX_EVENTS THEN Len(logged) ELSE MAX_EVENTS
  /\ events = LastOf(logged, Len(events))

\* A detectAnomalies call logs one HIGH event when the error rate exceeds
\* the threshold, and nothing otherwise
DetectLogsOnThreshold ==
  ret'.op = "detectAnomalies"
    => IF ret'.errorRate > 10
         THEN /\ Len(logged') = Len(logged) + 1
              /\ logged'[Len(logged')].severity = "HIGH"
              /\ events'[Len(events')] = logged'[Len(logged')]
         ELSE logged' = logged /\ events' = events

\* C23: after any sequence of logSecurityEvent and detectAnomalies calls the
\* log holds at most 1000 events, the most recently logged ones in logging
\* order; detectAnomalies adds one HIGH event when errorRate exceeds 10% and
\* none otherwise.
C23_BoundedFifoLog == [](BoundedFifo) /\ [][DetectLogsOnThreshold]_vars

\* The log has overflowed and dropped its oldest event, and holds an event
\* detectAnomalies logged
C23_Witness ==
  /\ Len(logged) > MAX_EVENTS
  /\ Len(events) = MAX_EVENTS
  /\ events[1] = logged[Len(logged) - MAX_EVENTS + 1]
  /\ \E i \in 1..Len(events) : events[i].type = "HIGH_ERROR_RATE"

\* The attempts of a fetchWithRetry call: at most 3, only the last of them
\* may have received an OK response, attempt i + 1 was preceded by a wait of
\* retryDelay * 2^i
RetryDiscipline(outcomes, waits, retryDelay) ==
  /\ Len(outcomes) <= 3
  /\ \A i \in 1..Len(outcomes) - 1 : outcomes[i] # "ok"
  /\ \A i \in 1..Len(waits) : waits[i] = retryDelay * Pow2(i - 1)

\* C27: fetchWithRetry makes at most 3 attempts, waits retryDelay * 2^i
\* before attempt i+1, stops at the first attempt that receives an OK
\* response and returns it, and throws only when every attempt failed.
C27_RetryLoop ==
  /\ fetchCall.pc # "idle"
       => /\ RetryDiscipline(fetchCall.outcomes, fetchCall.waits,
                             RetryDelayOf(fetchCall.retryDelay))
          /\ \A i \in 1..Len(fetchCall.outcomes) : fetchCall.outcomes[i] # "ok"
  /\ ret.op = "fetchWithRetry"
       => /\ \E retryDelay \in RetryDelayOptions :
               RetryDiscipline(ret.outcomes, ret.waits, RetryDelayOf(retryDelay))
          /\ Len(ret.waits) = Len(ret.outcomes) - 1
          /\ ret.outcome = "return" <=> ret.outcomes[Len(ret.outcomes)] = "ok"
          /\ ret.outcome = "throw" => Len(ret.outcomes) = 3

\* Consecutive accepted calls of an action are at least the cooldown apart
AcceptsSpaced(action, cooldown) ==
  \A i \in 1..Len(ChecksOf(action).accepted) - 1 :
    ChecksOf(action).accepted[i + 1] - ChecksOf(action).accepted[i] >= cooldown

\* A call at time t comes less than the cooldown after the last accepted
\* call of the action
WithinCooldown(action, cooldown, t) ==
  /\ ChecksOf(action).accepted # <<>>
  /\ t - ChecksOf(action).accepted[Len(ChecksOf(action).accepted)] < cooldown

\* C26: a connectWallet call less than 2000 ms after the last accepted one
\* throws the cooldown error before the provider is asked, every other
\* connectWallet call is accepted (a rejected call does not restart the
\* cooldown); getIdentity is rejected within 1000 ms of the last accepted
\* fetch for the same address and accepted otherwise, whatever was fetched
\* for other addresses.
C26_Cooldowns ==
  /\ AcceptsSpaced(ConnectAction, 2000)
  /\ \A address \in IdentityAddresses : AcceptsSpaced(IdentityAction(address), 1000)
  /\ \A action \in DOMAIN accepts :
       \A i \in 1..Len(accepts[action].rejected) :
         \E j \in 1..Len(accepts[action].accepted) :
           /\ accepts[action].accepted[j] <= accepts[action].rejected[i]
           /\ accepts[action].rejected[i] - accepts[action].accepted[j]
                < (IF action = ConnectAction THEN 2000 ELSE 1000)
  /\ (ret.op = "connectWallet" /\ ret.error = CooldownError(ConnectAction))
       => /\ WithinCooldown(ConnectAction, 2000, ret.at)
          /\ ret.provider = "not asked"
  /\ (ret.op = "connectWallet" /\ ret.error # CooldownError(ConnectAction))
       => ChecksOf(ConnectAction).accepted[Len(ChecksOf(ConnectAction).accepted)] = ret.at
  /\ (ret.op = "getIdentity" /\ ret.outcome = "throw")
       => WithinCooldown(IdentityAction(ret.address), 1000, ret.at)

\* A connectWallet call was accepted 2000 ms after the accepted call before
\* it although a call in between was rejected, and a getIdentity call was
\* rejected for one address after one for the other address was accepted
C26_Witness ==
  /\ \E i \in 1..Len(ChecksOf(ConnectAction).accepted) - 1 :
       /\ ChecksOf(ConnectAction).accepted[i + 1]
            = ChecksOf(ConnectAction).accepted[i] + 2000
       /\ \E j \in 1..Len(ChecksOf(ConnectAction).rejected) :
            /\ ChecksOf(ConnectAction).rejected[j] > ChecksOf(ConnectAction).accepted[i]
            /\ ChecksOf(ConnectAction).rejected[j] < ChecksOf(ConnectAction).accepted[i + 1]
  /\ \E a, b \in IdentityAddresses :
       /\ a # b
       /\ ChecksOf(IdentityAction(a)).rejected # <<>>
       /\ ChecksOf(IdentityAction(b)).accepted # <<>>
       /\ ChecksOf(IdentityAction(b)).accepted[1] <= ChecksOf(IdentityAction(a)).rejected[1]
       /\ ChecksOf(IdentityAction(b)).accepted[1] >= ChecksOf(IdentityAction(a)).accepted[1]
  /\ ret.op = "getIdentity" /\ ret.outcome = "return"

\* The operations whose errors are to be logged
LoggedOperations ==
  {"issueCredential", "storeCredential", "receiveCredentialRequest",
   "respondToRequest", "connectWallet", "getIdentity", "signMessage",
   "sendTransaction"}

\* C22: whenever one of the operations throws to its caller, a
\* SecurityEvent with a severity was appended to the monitor's log by the
\* call.
C22_ThrowsAreLogged ==
  [][(ret'.outcome = "throw" /\ ret'.op \in LoggedOperations)
       => /\ Len(logged') = Len(logged) + 1
          /\ logged'[Len(logged')].severity \in {"LOW", "MEDIUM", "HIGH"}]_vars

\* C30: when the hook's connectWallet ends after the service connected a
\* wallet and getIdentity did not or would not refuse the fetch, the state
\* holds the wallet, the identity of that wallet's address, and no error.
C30_IdentitySyncedAfterConnect ==
  (/\ ret.op = "hook.connectWallet"
   /\ ret.connected
   /\ ret.sync # "cooldown"
   /\ ret.sync = "not called" => RateLimitPasses(IdentityAction(ret.wallet)))
    => /\ hookState.wallet = ret.wallet
       /\ hookState.identity = IdentityOf(ret.wallet)
       /\ hookState.error = "null"

====
